---- MODULE Spec2Model ----
(***************************************************************************)
(* LoxleyBot: the copypasta table renderer (cogs/entertainment.py,         *)
(* format_copypasta_list), the JSON export chunker (functions.py,          *)
(* copypasta_export_json), the answer to "Marco" (functions.py,            *)
(* marco_polo) and the copypasta command of a guild (cogs/entertainment.py *)
(* copypasta, functions.py copypasta_import_json), the store of a guild's  *)
(* copypastas (functions.py database_copypasta_add), the purge command     *)
(* (cogs/utils.py purge) and the copypasta channel (bot.py on_ready,       *)
(* on_message, copypasta_channel_process_message).                         *)
(*                                                                         *)
(* A Python str is a sequence of one-character strings.  Indices of the    *)
(* Python code are 0-based; the operators below take and return the        *)
(* Python (0-based) values and convert when they touch a TLA+ sequence.    *)
(***************************************************************************)
EXTENDS Integers, Sequences, FiniteSets, TLC

VARIABLES
    \* ---- format_copypasta_list ----
    pc,               \* position in format_copypasta_list: "start", "loop", "done"
    headings,         \* the four localized headings <<id, title, content, count>>
    copypasta_list,   \* argument: sequence of <<id, title, content, count>>
    emphasis,         \* argument, reassigned inside the loop; <<>> is None
    widths,           \* <<max_len_id, max_len_title, max_len_content, max_len_count>>
    i,                \* number of copypastas the for loop has processed
    table,            \* the table being built
    table_list,       \* the tables closed so far (the return value)
    rendered,         \* per processed copypasta: the cells and the row it was given
    \* ---- copypasta_export_json ----
    epc,              \* position in copypasta_export_json: "start", "loop", "done"
    copypastas,       \* the guild's rows of table copypastas (a set of records)
    copypasta_dicts,  \* the rows as returned by the search, ordered by id
    j,                \* number of dicts the for loop has processed
    cur_file_size,
    copypastas_within_limit,
    copypasta_lists,
    buffers,          \* the return value
    \* ---- marco_polo ----
    mpc,              \* position in marco_polo: "start", "letters", "done"
    marco_string,     \* argument: the content of the message
    marco_match,      \* the groups of regexes.MARCO.fullmatch(string)
    marco_k,          \* number of character_dicts the for loop has processed
    marco_amounts,    \* the values gen_char_amount returned, per call site
    marco_s,          \* s, the answer being built
    \* ---- the copypasta command ----
    cpc,              \* "idle" or "ready" (waiting for a command)
    arguments,        \* the arguments of the last command
    attachment,       \* the bytes of the file attached to the last command
    outcome,          \* what the last command did
    banned,           \* table copypasta_bans has a row for the author
    \* ---- the channels of the guild, on_ready, on_message, purge ----
    channels,         \* per text channel its messages, oldest first
    next_id,          \* the id of the next message (ids grow with time)
    copypasta_channel, \* guild_data.copypasta_channel_id; 0 is NULL
    last_saved_id,    \* guild_data.copypasta_channel_last_saved_id; 0 is NULL
    online,           \* the bot is connected and receives events
    rpc,              \* position in on_ready: "idle", "loop", "done"
    history,          \* the messages an async for has still to yield
    ppc,              \* position in purge: "idle", "loop", "done"
    end_message_id,   \* purge, on_ready: the id the loop stops at; 0 is None
    deleted           \* purge: the ids of the messages it has deleted

vars == <<pc, headings, copypasta_list, emphasis, widths, i, table, table_list,
          rendered, epc, copypastas, copypasta_dicts, j, cur_file_size,
          copypastas_within_limit, copypasta_lists, buffers,
          mpc, marco_string, marco_match, marco_k, marco_amounts, marco_s,
          cpc, arguments, attachment, outcome, banned,
          channels, next_id, copypasta_channel, last_saved_id, online, rpc,
          history, ppc, end_message_id, deleted>>

fvars == <<pc, headings, copypasta_list, emphasis, widths, i, table, table_list,
           rendered>>

evars == <<epc, copypastas, copypasta_dicts, j, cur_file_size,
           copypastas_within_limit, copypasta_lists, buffers>>

mvars == <<mpc, marco_string, marco_match, marco_k, marco_amounts, marco_s>>

cvars == <<cpc, arguments, attachment, outcome>>

bvars == <<channels, next_id, copypasta_channel, last_saved_id, online, rpc,
           history>>

pvars == <<ppc, end_message_id, deleted>>

gvars == <<banned, bvars, pvars>>

\* marco_polo is not running.
MarcoIdle ==
    /\ mpc = "idle"
    /\ marco_string = <<>>
    /\ marco_match = <<>>
    /\ marco_k = 0
    /\ marco_amounts = <<>>
    /\ marco_s = <<>>

\* No copypasta command is being served.
CommandIdle ==
    /\ cpc = "idle"
    /\ arguments = <<>>
    /\ attachment = <<>>
    /\ outcome = <<>>

\* The bot is not connected and the guild has no channel.
BotIdle ==
    /\ channels = <<>>
    /\ next_id = 1
    /\ copypasta_channel = 0
    /\ last_saved_id = 0
    /\ online = FALSE
    /\ rpc = "idle"
    /\ history = <<>>

\* No purge is running.
PurgeIdle ==
    /\ ppc = "idle"
    /\ end_message_id = 0
    /\ deleted = {}

\* Nothing of the guild but its copypastas is looked at.
GuildIdle == banned = FALSE /\ BotIdle /\ PurgeIdle

(***************************************************************************)
(* Program constants                                                       *)
(***************************************************************************)
DISCORD_CHARACTER_LIMIT == 2000
COPYPASTA_LIST_CHARACTERS_PER_ROW == 80
DISCORD_FILE_BYTE_LIMIT == 8388608
COPYPASTA_JSON_INDENT_AMOUNT == 2

CHARACTERS_PER_ROW == COPYPASTA_LIST_CHARACTERS_PER_ROW
SEPARATOR == <<"|">>
\* The three characters of the PADDING literal of the source file.
PADDING == <<"m1", "m2", "m3">>
PADDING_LEN == Len(PADDING)
\* The Markdown code fence; "bq" is the backquote character.
FENCE == <<"bq", "bq", "bq">>
\* The row width with no room kept for the separators.
LIMIT_LEN_LINE_NoSeparators == CHARACTERS_PER_ROW

LIMIT_LEN_LINE == CHARACTERS_PER_ROW - 5
LIMIT_LEN_TITLE == CHARACTERS_PER_ROW \div 4

(***************************************************************************)
(* Python built-ins used by the code                                       *)
(***************************************************************************)
Min2(a, b) == IF a <= b THEN a ELSE b
Max2(a, b) == IF a >= b THEN a ELSE b

SetMax(S) == CHOOSE x \in S : \A y \in S : y <= x
SetMin(S) == CHOOSE x \in S : \A y \in S : x <= y

Rep(c, n) == [k \in 1..n |-> c]

\* A slice bound of s[a:b], clamped the way Python clamps it.
PyIdx(k, n) == IF k < 0 THEN Max2(k + n, 0) ELSE Min2(k, n)

\* s[a:b]
PySlice(s, a, b) ==
    LET lo == PyIdx(a, Len(s))
        hi == PyIdx(b, Len(s))
    IN  IF lo >= hi THEN <<>> ELSE SubSeq(s, lo + 1, hi)

\* s[a:]
PySliceFrom(s, a) == PySlice(s, a, Len(s))

\* s[:b]
PySliceTo(s, b) == PySlice(s, 0, b)

\* str.upper() on the characters of the alphabet of the model
UpperChar(c) ==
    CASE c = "a" -> "A"
      [] c = "b" -> "B"
      [] c = "c" -> "C"
      [] c = "x" -> "X"
      [] c = "y" -> "Y"
      [] OTHER -> c

Upper(s) == [k \in 1..Len(s) |-> UpperChar(s[k])]

\* s.find(sub): the least 0-based index of an occurrence, -1 if none
Find(s, sub) ==
    LET hits == {p \in 0..(Len(s) - Len(sub)) :
                    SubSeq(s, p + 1, p + Len(sub)) = sub}
    IN  IF hits = {} THEN -1 ELSE SetMin(hits)

\* sub in s
Contains(s, sub) == Find(s, sub) # -1

Ljust(s, w) == IF Len(s) >= w THEN s ELSE s \o Rep(" ", w - Len(s))
Rjust(s, w) == IF Len(s) >= w THEN s ELSE Rep(" ", w - Len(s)) \o s

\* str.center: the left margin is marg/2 + (marg & width & 1)
Center(s, w) ==
    IF Len(s) >= w THEN s
    ELSE LET marg == w - Len(s)
             left == (marg \div 2)
                     + (IF marg % 2 = 1 /\ w % 2 = 1 THEN 1 ELSE 0)
         IN  Rep(" ", left) \o s \o Rep(" ", marg - left)

DigitChar(d) ==
    CASE d = 0 -> "0" [] d = 1 -> "1" [] d = 2 -> "2" [] d = 3 -> "3"
      [] d = 4 -> "4" [] d = 5 -> "5" [] d = 6 -> "6" [] d = 7 -> "7"
      [] d = 8 -> "8" [] d = 9 -> "9"

RECURSIVE Str(_)
\* str(n) for a non-negative int
Str(n) == IF n < 10 THEN <<DigitChar(n)>>
          ELSE Str(n \div 10) \o <<DigitChar(n % 10)>>

\* content.replace("\n", "")
RemoveNewlines(s) == SelectSeq(s, LAMBDA c : c # "\n")

\* functions.divide_in_pairs; // and % are floor division and modulo, as
\* \div and % are.
divide_in_pairs(n) ==
    IF n % 2 = 0 THEN <<n \div 2, n \div 2>>
    ELSE <<n \div 2, (n \div 2) + 1>>

\* FORMAT.format(sep=SEPARATOR, id=..., title=..., content=..., count=...)
FORMAT(id, title, content, count) ==
    SEPARATOR \o id \o SEPARATOR \o title \o SEPARATOR \o content
    \o SEPARATOR \o count \o SEPARATOR \o <<"\n">>

(***************************************************************************)
(* format_copypasta_list                                                   *)
(***************************************************************************)
\* len(str(max(copypasta_list, key=lambda l: l[0])[0]))
MaxLenId(h, list) ==
    Max2(Len(h[1]),
         Len(Str(SetMax({list[k][1] : k \in 1..Len(list)}))))

\* max(len(HEADING_TITLE), min(LIMIT_LEN_TITLE, longest title))
MaxLenTitle(h, list) ==
    Max2(Len(h[2]),
         Min2(LIMIT_LEN_TITLE,
              SetMax({Len(list[k][2]) : k \in 1..Len(list)})))

MaxLenCount(h, list) ==
    Max2(Len(h[4]),
         Len(Str(SetMax({list[k][4] : k \in 1..Len(list)}))))

\* The content width without the heading as its floor.
MaxLenContent_BudgetOnly(h, list) ==
    Min2(LIMIT_LEN_LINE - MaxLenId(h, list) - MaxLenTitle(h, list)
             - MaxLenCount(h, list),
         SetMax({Len(list[k][3]) : k \in 1..Len(list)}))

MaxLenContent(h, list) ==
    Max2(Len(h[3]),
         Min2(LIMIT_LEN_LINE - MaxLenId(h, list) - MaxLenTitle(h, list)
                  - MaxLenCount(h, list),
              SetMax({Len(list[k][3]) : k \in 1..Len(list)})))

\* The heading row: every heading centred in its column.
HeaderRow(h, w) ==
    FORMAT(Center(h[1], w[1]), Center(h[2], w[2]),
           Center(h[3], w[3]), Center(h[4], w[4]))

\* The title cell of a row.
TitleCell(title, max_len_title) ==
    IF Len(title) <= max_len_title
    THEN Ljust(title, max_len_title)
    ELSE PySliceTo(title, max_len_title - PADDING_LEN) \o PADDING

\* The branch taken for a row: emphasis is given and occurs in the content.
\* content has its newlines removed already.
EmphasisInContent(emph, content) ==
    /\ emph # <<>>
    /\ Contains(Upper(content), Upper(emph))

\* emphasis_len and the clipped emphasis: the length is read before the
\* emphasis is clipped and is not read again.
ClipEmphasis(emph, max_len_content) ==
    [emphasis_len |-> Len(emph),
     emphasis     |-> IF Len(emph) >= max_len_content
                      THEN PySliceTo(emph, max_len_content)
                      ELSE emph]

\* The left and right budgets after unused spaces of one side were given to
\* the other side.
TransferSpaces(left_string_len, right_string_len, spaces) ==
    LET s1 == IF left_string_len < spaces[1]
              THEN <<left_string_len,
                     spaces[2] + (spaces[1] - left_string_len)>>
              ELSE spaces
        s2 == IF right_string_len < s1[2]
              THEN <<s1[1] + (s1[2] - right_string_len), right_string_len>>
              ELSE s1
    IN  s2

\* padding_on_left, padding_on_right: decided on the budgets as divided,
\* before any transfer.
PaddingOn(string_len, spaces) == string_len > spaces

\* The elision markers written over the ends of the composed cell.
ApplyPadding(section, padding_on_left, padding_on_right) ==
    LET s1 == IF padding_on_left
              THEN PADDING \o PySliceFrom(section, PADDING_LEN)
              ELSE section
        s2 == IF padding_on_right
              THEN PySliceTo(s1, Len(s1) - PADDING_LEN) \o PADDING
              ELSE s1
    IN  s2

\* The content cell of a row whose content holds the emphasis, before it is
\* justified, and the value emphasis has afterwards.
EmphasisCell(content, emph, max_len_content) ==
    LET clip == ClipEmphasis(emph, max_len_content)
        emphasis_len == clip.emphasis_len
        emphasis_index == Find(Upper(content), Upper(clip.emphasis))
        spaces0 == divide_in_pairs(max_len_content - emphasis_len)
        left_string == PySliceTo(content, emphasis_index)
        right_string == PySliceFrom(content, emphasis_index + emphasis_len)
        left_string_len == Len(left_string)
        right_string_len == Len(right_string)
        padding_on_left == PaddingOn(left_string_len, spaces0[1])
        padding_on_right == PaddingOn(right_string_len, spaces0[2])
        spaces == TransferSpaces(left_string_len, right_string_len, spaces0)
        section ==
            PySliceFrom(left_string, left_string_len - spaces[1])
            \o PySlice(content, emphasis_index, emphasis_index + emphasis_len)
            \o PySliceTo(right_string, spaces[2])
    IN  [section_content |->
             ApplyPadding(section, padding_on_left, padding_on_right),
         emphasis |-> clip.emphasis]

\* The content cell of a row without the emphasis, before it is justified.
PlainCell(content, max_len_content) ==
    IF Len(content) <= max_len_content
    THEN content
    ELSE PySliceTo(content, max_len_content - PADDING_LEN) \o PADDING

\* One iteration of the for loop up to the row: the four cells, the row and
\* the value of emphasis after the iteration.
RenderCopypasta(copypasta, emph, w) ==
    LET content == RemoveNewlines(copypasta[3])
        cell == IF EmphasisInContent(emph, content)
                THEN EmphasisCell(content, emph, w[3])
                ELSE [section_content |-> PlainCell(content, w[3]),
                      emphasis |-> emph]
        section_id == Rjust(Str(copypasta[1]), w[1])
        section_title == TitleCell(copypasta[2], w[2])
        section_count == Ljust(Str(copypasta[4]), w[4])
        section_content == Ljust(cell.section_content, w[3])
    IN  [section_id |-> section_id,
         section_title |-> section_title,
         section_content |-> section_content,
         section_count |-> section_count,
         row |-> FORMAT(section_id, section_title, section_content,
                        section_count),
         emphasis_in |-> emph,
         emphasis |-> cell.emphasis]

\* No room for another row in the table.
TableFull(t) ==
    Len(t) + CHARACTERS_PER_ROW + 3 > DISCORD_CHARACTER_LIMIT

\* No row taken for the last one: the table still open after the last row is
\* never closed.
IsLastCopypasta_Never(copypasta, list) == FALSE

\* The comparison made against the first element of the list instead of the
\* last.
IsLastCopypasta_First(copypasta, list) == copypasta = list[1]

\* copypasta == copypasta_list[-1]
IsLastCopypasta(copypasta, list) == copypasta = list[Len(list)]

\* Lines 158-223: widths, first table with the heading row.
Begin ==
    /\ pc = "start"
    /\ widths' = <<MaxLenId(headings, copypasta_list),
                   MaxLenTitle(headings, copypasta_list),
                   MaxLenContent(headings, copypasta_list),
                   MaxLenCount(headings, copypasta_list)>>
    /\ table' = FENCE \o HeaderRow(headings, widths')
    /\ table_list' = <<>>
    /\ i' = 0
    /\ pc' = "loop"
    /\ UNCHANGED <<headings, copypasta_list, emphasis, rendered>>
    /\ UNCHANGED evars
    /\ UNCHANGED <<mvars, cvars, gvars>>

\* Lines 225-326: one iteration of the for loop.
RenderRow ==
    /\ pc = "loop"
    /\ i < Len(copypasta_list)
    /\ LET copypasta == copypasta_list[i + 1]
           r == RenderCopypasta(copypasta, emphasis, widths)
           t == table \o r.row
       IN  /\ emphasis' = r.emphasis
           /\ rendered' = Append(rendered, r)
           /\ IF TableFull(t)
              THEN /\ table_list' = Append(table_list, t \o FENCE)
                   /\ table' = FENCE
              ELSE IF IsLastCopypasta(copypasta, copypasta_list)
              THEN /\ table_list' = Append(table_list, t \o FENCE)
                   /\ table' = t \o FENCE
              ELSE /\ table_list' = table_list
                   /\ table' = t
    /\ i' = i + 1
    /\ UNCHANGED <<pc, headings, copypasta_list, widths>>
    /\ UNCHANGED evars
    /\ UNCHANGED <<mvars, cvars, gvars>>

\* Line 328: return table_list.
Return ==
    /\ pc = "loop"
    /\ i = Len(copypasta_list)
    /\ pc' = "done"
    /\ UNCHANGED <<headings, copypasta_list, emphasis, widths, i, table,
                   table_list, rendered>>
    /\ UNCHANGED evars
    /\ UNCHANGED <<mvars, cvars, gvars>>

(***************************************************************************)
(* Inputs of format_copypasta_list                                         *)
(***************************************************************************)
\* Longest run of text put on one side of the emphasis.
MaxSide == 40
\* Longest emphasis of the two-row inputs.
MaxEmphasis == 70
\* Most rows of the many-row inputs.
MaxRows == 49

\* The headings of two locales (localization.json is data, not code): the
\* English ones and a set of longer ones.
HeadingsShort ==
    <<<<"I", "D">>, <<"T", "I", "T", "L", "E">>,
      <<"C", "O", "N", "T", "E", "N", "T">>, <<"C", "O", "U", "N", "T">>>>

HeadingsLong ==
    <<<<"I", "D">>, <<"T", "I", "T", "U", "L", "O">>,
      <<"C", "O", "N", "T", "E", "U", "D", "O">>,
      <<"C", "O", "N", "T", "A", "G", "E", "M">>>>

\* An emphasis of n characters, n >= 2: a, c ... c, b.
Emph(n) == [k \in 1..n |-> IF k = 1 THEN "a" ELSE IF k = n THEN "b" ELSE "c"]

SideLens == {0, 1, 2, MaxSide}
EmphasisLens == {0, 2, 7, 8, 9, 10, MaxEmphasis - 6, MaxEmphasis}

\* A content holding text in upper case, l characters after the start and
\* r characters before the end.
ContentAround(l, text, r) == Rep("x", l) \o Upper(text) \o Rep("y", r)

LongTitle == Rep("y", LIMIT_LEN_TITLE + 5)

\* Two rows: the first holds the emphasis (or "q" when there is none) with
\* l characters on its left and r on its right; the second is a short row
\* without the emphasis, a row with the content of the first, or a row
\* whose content holds the emphasis in lower case across a newline.
TwoRowInputs ==
    { [headings |-> h,
       emphasis |-> IF e = 0 THEN <<>> ELSE Emph(e),
       list |->
         LET mid == IF e = 0 THEN <<"q">> ELSE Emph(e)
             first == ContentAround(l, mid, r)
             second ==
                 CASE v = "short" -> <<"x", "y", "x">>
                   [] v = "same" -> first
                   [] v = "newline" ->
                        <<"x", "\n">> \o PySliceTo(mid, 1) \o <<"\n">>
                        \o PySliceFrom(mid, 1) \o <<"x", "x", "x">>
         IN  <<<<7, <<"t">>, first, 0>>, <<12, LongTitle, second, 123>>>>]
      : h \in {HeadingsShort, HeadingsLong}, e \in EmphasisLens,
        l \in SideLens, r \in SideLens, v \in {"short", "same", "newline"} }

\* A row whose content fills the content column.
FullContent == Rep("c", LIMIT_LEN_LINE)

\* n rows that fill their columns, listed without emphasis with ids going
\* up or down, or found by a search for a long query: every row but the last
\* has the query as its title, the last has it in its content.
ManyRowInputs ==
    { [headings |-> HeadingsShort,
       emphasis |-> IF v = "search" THEN Emph(2 * MaxEmphasis) ELSE <<>>,
       list |->
         [k \in 1..n |->
            CASE v = "up" -> <<k, <<"t">>, FullContent, k>>
              [] v = "down" -> <<n + 1 - k, <<"t">>, FullContent, 0>>
              [] v = "search" ->
                   IF k < n
                   THEN <<k, Emph(2 * MaxEmphasis), FullContent, n - k>>
                   ELSE <<k, <<"t">>,
                          ContentAround(3, Emph(2 * MaxEmphasis), 3), 0>>]]
      : n \in 1..MaxRows, v \in {"up", "down", "search"} }

\* What is left of a row for the content column once the other three
\* columns have their widths (the first argument of min on lines 199-202).
ContentBudget(h, list) ==
    LIMIT_LEN_LINE - MaxLenId(h, list) - MaxLenTitle(h, list)
        - MaxLenCount(h, list)

\* Two rows, listed or found by a search, under the headings of a verbose
\* locale: 20, 25 and 7 characters for id, title and content, and a count
\* heading that leaves b characters for the content, b around the length
\* of the content heading and around zero.
WideInputs ==
    LET content == Len(HeadingsShort[3])
    IN  { [headings |-> <<Rep("I", 20), Rep("T", 25), HeadingsShort[3],
                          Rep("C", LIMIT_LEN_LINE - 45 - b)>>,
           emphasis |-> IF e = 0 THEN <<>> ELSE Emph(e),
           list |-> <<<<1, <<"t">>, ContentAround(4, Emph(3), 4), 0>>,
                      <<2, LongTitle, <<"x", "y", "x">>, 5>>>>]
          : b \in {content + 1, content, content - 1, 1, 0, -1},
            e \in {0, 3} }

\* A search for a query nearly as long as a message: the first row holds
\* the query, the second does not.
HugeEmphasisInputs ==
    { [headings |-> HeadingsShort,
       emphasis |-> Emph(DISCORD_CHARACTER_LIMIT - 100),
       list |-> <<<<1, <<"t">>,
                    ContentAround(3, Emph(DISCORD_CHARACTER_LIMIT - 100), 3),
                    0>>,
                  <<2, <<"t">>, <<"x", "y", "x">>, 1>>>>] }

\* n rows no wider than their headings, n around the number of such rows
\* one table can hold.
NarrowInputs ==
    { [headings |-> HeadingsShort,
       emphasis |-> <<>>,
       list |-> [k \in 1..n |-> <<k, <<"t">>, <<"x", "y", "x">>, 0>>]]
      : n \in {MaxRows + 27, MaxRows + 28, MaxRows + 29} }

FormatInputs ==
    TwoRowInputs \cup ManyRowInputs \cup WideInputs \cup HugeEmphasisInputs
        \cup NarrowInputs

ExportIdle ==
    /\ epc = "idle"
    /\ copypastas = {}
    /\ copypasta_dicts = <<>>
    /\ j = 0
    /\ cur_file_size = 0
    /\ copypastas_within_limit = <<>>
    /\ copypasta_lists = <<>>
    /\ buffers = <<>>

\* A call of format_copypasta_list(copypasta_list, emphasis) about to run.
Init ==
    /\ \E inp \in FormatInputs :
          /\ headings = inp.headings
          /\ copypasta_list = inp.list
          /\ emphasis = inp.emphasis
    /\ pc = "start"
    /\ widths = <<0, 0, 0, 0>>
    /\ i = 0
    /\ table = <<>>
    /\ table_list = <<>>
    /\ rendered = <<>>
    /\ ExportIdle
    /\ MarcoIdle
    /\ CommandIdle
    /\ GuildIdle

Next == Begin \/ RenderRow \/ Return

Spec == Init /\ [][Next]_vars

(***************************************************************************)
(* Reading the returned tables                                             *)
(***************************************************************************)
\* The lines of a table, each with its newline, after the opening fence;
\* the closing fence follows the last newline.
LinesOf(block) ==
    LET body == PySliceFrom(block, Len(FENCE))
        ends == {p \in 1..Len(body) : body[p] = "\n"}
        EndNo(m) == CHOOSE p \in ends : Cardinality({q \in ends : q <= p}) = m
    IN  [m \in 1..Cardinality(ends) |->
            SubSeq(body, IF m = 1 THEN 1 ELSE EndNo(m - 1) + 1, EndNo(m))]

RECURSIVE Flatten(_)
Flatten(ss) == IF ss = <<>> THEN <<>> ELSE Head(ss) \o Flatten(Tail(ss))

\* The data rows of the returned tables, in table order then line order:
\* every line that is not the heading row.
DataLines(blocks) ==
    SelectSeq(Flatten([b \in 1..Len(blocks) |-> LinesOf(blocks[b])]),
              LAMBDA line : line # HeaderRow(headings, widths))

\* The emphasis argument as the caller passed it.
EmphasisArgument ==
    IF rendered = <<>> THEN emphasis ELSE rendered[1].emphasis_in

(***************************************************************************)
(* Properties of format_copypasta_list                                     *)
(***************************************************************************)
\* C1: every returned table, fences included, is at most
\* DISCORD_CHARACTER_LIMIT characters long.
C1_BlockWithinLimit ==
    \A b \in 1..Len(table_list) :
        Len(table_list[b]) <= DISCORD_CHARACTER_LIMIT

\* C2: for rows with pairwise distinct ids, the data rows of the returned
\* tables, read in table order and line order, are the rows rendered for the
\* input rows, one per input row and in input order.
C2_RowsConserved ==
    pc = "done" =>
        LET lines == DataLines(table_list)
        IN  /\ Len(lines) = Len(copypasta_list)
            /\ \A k \in 1..Len(lines) :
                  /\ lines[k] = rendered[k].row
                  /\ SubSeq(lines[k], 1, widths[1] + 2)
                       = SEPARATOR
                         \o Rjust(Str(copypasta_list[k][1]), widths[1])
                         \o SEPARATOR

\* C2 witness: a call has returned two tables and its last row was the one
\* that filled and closed the second.
C2_Witness ==
    /\ pc = "done"
    /\ Len(table_list) = 2
    /\ table = FENCE
    /\ Len(copypasta_list) > 2

\* C3: every returned table starts with the heading row.
C3_HeaderInEveryBlock ==
    \A b \in 1..Len(table_list) :
        PySliceTo(table_list[b],
                  Len(FENCE) + Len(HeaderRow(headings, widths)))
            = FENCE \o HeaderRow(headings, widths)

\* C4: every rendered data row is as long as the four column widths plus the
\* five separators and the newline.
C4_GridInvariant ==
    \A k \in 1..Len(rendered) :
        Len(rendered[k].row)
            = widths[1] + widths[2] + widths[3] + widths[4] + 6

\* C5: when the emphasis is no longer than the content column and occurs in
\* the content of a row, the content cell of the row holds the matched
\* occurrence whole.
C5_EmphasisVisible ==
    \A k \in 1..Len(rendered) :
        LET content == RemoveNewlines(copypasta_list[k][3])
            emph == EmphasisArgument
            at == Find(Upper(content), Upper(emph))
        IN  (/\ emph # <<>>
             /\ Len(emph) <= widths[3]
             /\ at # -1)
            => Contains(rendered[k].section_content,
                        SubSeq(content, at + 1, at + Len(emph)))

\* C6: every content cell is exactly as long as the content column, and
\* when the emphasis is longer than the column the cell carries no elision
\* marker.
C6_ContentCellWidth ==
    \A k \in 1..Len(rendered) :
        /\ Len(rendered[k].section_content) = widths[3]
        /\ (/\ Len(EmphasisArgument) > widths[3]
            /\ Contains(Upper(RemoveNewlines(copypasta_list[k][3])),
                        Upper(EmphasisArgument)))
           => ~Contains(rendered[k].section_content, PADDING)

(***************************************************************************)
(* The content cell around the emphasis                                    *)
(***************************************************************************)
\* What the k-th rendered row had around the emphasis, for a row whose
\* content holds the emphasis and an emphasis shorter than the content
\* column: the texts on both sides, the matched text, and the budgets of the
\* sides after the surplus of one side was given to the other.
Around(k) ==
    LET content == RemoveNewlines(copypasta_list[k][3])
        emph == rendered[k].emphasis_in
        at == Find(Upper(content), Upper(emph))
        left == PySliceTo(content, at)
        right == PySliceFrom(content, at + Len(emph))
        final == TransferSpaces(Len(left), Len(right),
                                divide_in_pairs(widths[3] - Len(emph)))
    IN  [content |-> content, left |-> left, right |-> right,
         match |-> SubSeq(content, at + 1, at + Len(emph)),
         left_budget |-> final[1], right_budget |-> final[2]]

\* The rows rendered on the emphasis path with an emphasis shorter than the
\* content column.
EmphasisRows ==
    {k \in 1..Len(rendered) :
        /\ EmphasisInContent(rendered[k].emphasis_in,
                             RemoveNewlines(copypasta_list[k][3]))
        /\ Len(rendered[k].emphasis_in) < widths[3]}

\* C22: on the emphasis path the content cell starts (ends) with the elision
\* marker if and only if the text on the left (right) of the emphasis is
\* strictly longer than the final budget of that side, the budget after the
\* surplus of the other side was transferred.
C22_MarkerIffTruncated ==
    \A k \in EmphasisRows :
        LET a == Around(k)
            cell == rendered[k].section_content
            shown == Len(a.left) + Len(a.match) + Len(a.right)
        IN  /\ (PySliceTo(cell, PADDING_LEN) = PADDING)
                   <=> (Len(a.left) > a.left_budget)
            /\ Contains(cell, PADDING)
                   /\ PySliceTo(cell, PADDING_LEN) # PADDING
                   => Len(a.right) > a.right_budget
            /\ Len(a.right) > a.right_budget
                   => PySliceFrom(cell, Len(cell) - PADDING_LEN) = PADDING

\* C23: on the emphasis path the content cell shows, next to the emphasis,
\* min(length of the text, final budget) characters of each side (where no
\* elision marker is written over them), and the whole content, padded,
\* when the content is no longer than the content column.
C23_BudgetNeverWasted ==
    \A k \in EmphasisRows :
        LET a == Around(k)
            cell == rendered[k].section_content
            show_left == Min2(Len(a.left), a.left_budget)
            show_right == Min2(Len(a.right), a.right_budget)
            expected ==
                Ljust(SubSeq(a.left, Len(a.left) - show_left + 1, Len(a.left))
                          \o a.match \o SubSeq(a.right, 1, show_right),
                      widths[3])
        IN  /\ Len(cell) = Len(expected)
            /\ \A p \in 1..Len(cell) :
                   cell[p] \in {PADDING[q] : q \in 1..PADDING_LEN}
                       \/ cell[p] = expected[p]
            /\ Len(a.content) <= widths[3]
                   => cell = Ljust(a.content, widths[3])

\* C26: two rows of one call with equal content have equal content cells,
\* wherever they stand in the list and however long the emphasis is.
C26_CellIndependentOfEarlierRows ==
    \A k1, k2 \in 1..Len(rendered) :
        copypasta_list[k1][3] = copypasta_list[k2][3]
            => rendered[k1].section_content = rendered[k2].section_content

\* C24: every returned table holds at least one data row, ends with the
\* code fence and holds the fence twice, at its start and at its end; when
\* the call has returned, every row is in a returned table, the rows of the
\* last, partly filled table too.
C24_BlocksHaveRowsAndOneClosingFence ==
    /\ \A b \in 1..Len(table_list) :
          LET block == table_list[b]
          IN  /\ Len(DataLines(<<block>>)) >= 1
              /\ PySliceFrom(block, Len(block) - Len(FENCE)) = FENCE
              /\ Cardinality({p \in 1..Len(block) : block[p] = FENCE[1]})
                     = 2 * Len(FENCE)
    /\ pc = "done"
          => /\ table_list # <<>>
             /\ Len(DataLines(table_list)) = Len(copypasta_list)

\* C24 witness: the call has returned more than one table, and its last row
\* was the one that filled the last of them.
C24_Witness ==
    /\ pc = "done"
    /\ Len(table_list) > 1
    /\ table = FENCE
    /\ Len(DataLines(<<table_list[Len(table_list)]>>)) > 1

(***************************************************************************)
(* copypasta_export_json                                                   *)
(*                                                                         *)
(* The texts of the exported rows can be megabytes long, so a text is kept *)
(* here as a sequence of runs <<character, repetitions>>.  The JSON text   *)
(* json.dumps writes is kept line by line; its bytes are counted from the  *)
(* lines and json.loads reads the rows back from them.                     *)
(***************************************************************************)
\* The maximum without the margin.
MAX_FILE_SIZE_NoMargin == DISCORD_FILE_BYTE_LIMIT

MAX_FILE_SIZE == DISCORD_FILE_BYTE_LIMIT - 65536

keys == <<"id", "title", "content", "count">>

\* Bytes of one character inside a JSON string written with
\* ensure_ascii=False and encoded as UTF-8: the double quote ("dq") and the
\* newline are escaped with a backslash, "E" is a two-byte letter.
JsonCharBytes(c) ==
    CASE c = "dq" -> 2
      [] c = "\n" -> 2
      [] c = "E" -> 2
      [] OTHER -> 1

RECURSIVE TextBytes(_)
TextBytes(text) ==
    IF text = <<>> THEN 0
    ELSE Head(text)[2] * JsonCharBytes(Head(text)[1]) + TextBytes(Tail(text))

\* Bytes of a JSON value: an int in decimal, a text between double quotes.
JsonValueBytes(key, value) ==
    IF key \in {"id", "count"} THEN Len(Str(value)) ELSE 2 + TextBytes(value)

\* json.dumps(dict_, indent=2) for a dict opened at the given indentation:
\* the brace, one line per key ("key": value, with a comma on all but the
\* last), the closing brace.  comma tells whether another dict follows.
DumpsDictLines(dict_, indent, comma) ==
    <<[indent |-> indent, kind |-> "{", key |-> "", value |-> 0,
       comma |-> FALSE]>>
    \o [k \in 1..Len(keys) |->
          [indent |-> indent + COPYPASTA_JSON_INDENT_AMOUNT, kind |-> "item",
           key |-> keys[k], value |-> dict_[keys[k]],
           comma |-> k < Len(keys)]]
    \o <<[indent |-> indent, kind |-> "}", key |-> "", value |-> 0,
          comma |-> comma]>>

\* json.dumps(list_, indent=2): "[]" for the empty list, otherwise the
\* brackets on lines of their own around the dicts.
DumpsListLines(list_) ==
    IF list_ = <<>>
    THEN <<[indent |-> 0, kind |-> "[]", key |-> "", value |-> 0,
            comma |-> FALSE]>>
    ELSE <<[indent |-> 0, kind |-> "[", key |-> "", value |-> 0,
            comma |-> FALSE]>>
         \o Flatten([k \in 1..Len(list_) |->
                DumpsDictLines(list_[k], COPYPASTA_JSON_INDENT_AMOUNT,
                               k < Len(list_))])
         \o <<[indent |-> 0, kind |-> "]", key |-> "", value |-> 0,
               comma |-> FALSE]>>

\* Bytes of one line, without its newline.
LineBytes(line) ==
    line.indent
    + (CASE line.kind = "item" ->
              2 + Len(line.key) + 2 + JsonValueBytes(line.key, line.value)
         [] line.kind = "[]" -> 2
         [] OTHER -> 1)
    + (IF line.comma THEN 1 ELSE 0)

RECURSIVE SumLineBytes(_)
SumLineBytes(lines) ==
    IF lines = <<>> THEN 0
    ELSE LineBytes(Head(lines)) + SumLineBytes(Tail(lines))

\* io.BytesIO(text.encode("utf-8")).getbuffer().nbytes: the lines and the
\* newlines between them.
NBytes(lines) == SumLineBytes(lines) + (Len(lines) - 1)

\* json.loads of a dumped list: every opening brace starts a dict made of
\* the items that follow it.
LoadsList(lines) ==
    LET opens == SelectSeq([n \in 1..Len(lines) |-> n],
                           LAMBDA n : lines[n].kind = "{")
    IN  [d \in 1..Len(opens) |->
            [key \in {keys[k] : k \in 1..Len(keys)} |->
                LET n == CHOOSE n \in (opens[d] + 1)..(opens[d] + Len(keys)) :
                             lines[n].kind = "item" /\ lines[n].key = key
                IN  lines[n].value]]

\* The rows of the guild ordered by id ascending, each as
\* dict(zip(keys, copypasta)).
RECURSIVE SortById(_)
SortById(rows) ==
    IF rows = {} THEN <<>>
    ELSE LET first == CHOOSE r \in rows : \A q \in rows : r.id <= q.id
         IN  <<first>> \o SortById(rows \ {first})

\* The fullness test made on the size of the dict alone.
NeedsFlush_SizeOnly(cur, size, within) ==
    size > MAX_FILE_SIZE /\ within # <<>>

\* The fullness test made only for a dict that will be admitted.
NeedsFlush_AdmittedOnly(cur, size, within) ==
    /\ size <= MAX_FILE_SIZE
    /\ cur + size > MAX_FILE_SIZE
    /\ within # <<>>

\* The list is closed before this dict: it is not empty and the dict does
\* not fit after it.
NeedsFlush(cur, size, within) ==
    cur + size > MAX_FILE_SIZE /\ within # <<>>

\* The dict compared with the limit of Discord instead of the maximum.
TooLarge_DiscordLimit(size) == size > DISCORD_FILE_BYTE_LIMIT

\* The dict alone is over the maximum and is left out.
TooLarge(size) == size > MAX_FILE_SIZE

\* dict_ == copypasta_dicts[-1]
IsLastDict(dict_, dicts) == dict_ = dicts[Len(dicts)]

\* Lines 928-935.
ExportBegin ==
    /\ epc = "start"
    /\ copypasta_dicts' = SortById(copypastas)
    /\ cur_file_size' = 0
    /\ copypastas_within_limit' = <<>>
    /\ copypasta_lists' = <<>>
    /\ j' = 0
    /\ epc' = "loop"
    /\ UNCHANGED <<copypastas, buffers>>
    /\ UNCHANGED fvars
    /\ UNCHANGED <<mvars, cvars, gvars>>

\* Lines 937-961: one iteration of the for loop.
ExportDict ==
    /\ epc = "loop"
    /\ j < Len(copypasta_dicts)
    /\ LET dict_ == copypasta_dicts[j + 1]
           size == NBytes(DumpsDictLines(dict_, 0, FALSE))
           flush == NeedsFlush(cur_file_size, size, copypastas_within_limit)
           lists1 == IF flush
                     THEN Append(copypasta_lists, copypastas_within_limit)
                     ELSE copypasta_lists
           within1 == IF flush THEN <<>> ELSE copypastas_within_limit
           within2 == Append(within1, dict_)
       IN  IF TooLarge(size)
           THEN /\ copypasta_lists' = lists1
                /\ copypastas_within_limit' = within1
                /\ cur_file_size' = cur_file_size
           ELSE /\ copypastas_within_limit' = within2
                /\ copypasta_lists' =
                      IF IsLastDict(dict_, copypasta_dicts)
                      THEN Append(lists1, within2)
                      ELSE lists1
                /\ cur_file_size' = NBytes(DumpsListLines(within2))
    /\ j' = j + 1
    /\ UNCHANGED <<epc, copypastas, copypasta_dicts, buffers>>
    /\ UNCHANGED fvars
    /\ UNCHANGED <<mvars, cvars, gvars>>

\* Lines 963-972: one buffer per list.
ExportReturn ==
    /\ epc = "loop"
    /\ j = Len(copypasta_dicts)
    /\ buffers' = [k \in 1..Len(copypasta_lists) |->
                      DumpsListLines(copypasta_lists[k])]
    /\ epc' = "done"
    /\ UNCHANGED <<copypastas, copypasta_dicts, j, cur_file_size,
                   copypastas_within_limit, copypasta_lists>>
    /\ UNCHANGED fvars
    /\ UNCHANGED <<mvars, cvars, gvars>>

(***************************************************************************)
(* Inputs of copypasta_export_json: the rows of table copypastas.  The     *)
(* columns title and content are TEXT without a length limit; the ids of a *)
(* guild are pairwise distinct.                                            *)
(***************************************************************************)
\* Most rows of a guild.
MaxRecords == 4

ExportTitle == <<<<"t", 1>>, <<"E", 1>>>>

\* Bytes of the dumped dict that are not bytes of its content.
SoloBytesWithoutContent(id, count) ==
    NBytes(DumpsDictLines([id |-> id, title |-> ExportTitle,
                           content |-> <<>>, count |-> count], 0, FALSE))

\* A content that makes the dict of the row, dumped alone, solo bytes long.
ContentForSolo(solo, id, count) ==
    <<<<"dq", 1>>, <<"c", solo - SoloBytesWithoutContent(id, count) - 2>>>>

\* The sizes a row is given: a few bytes; half of what fits in a file after
\* the overhead of the first dict; exactly the maximum; one byte more.
ExportRow(id, class) ==
    LET count == IF id % 2 = 0 THEN 0 ELSE 10 * id
        content ==
            CASE class = "small" -> <<<<"c", 2>>, <<"\n", 1>>, <<"E", 1>>>>
              [] class = "half" ->
                   ContentForSolo((MAX_FILE_SIZE - 16) \div 2, id, count)
              [] class = "max" -> ContentForSolo(MAX_FILE_SIZE, id, count)
              [] class = "over" -> ContentForSolo(MAX_FILE_SIZE + 1, id, count)
    IN  [id |-> id, title |-> ExportTitle, content |-> content,
         count |-> count]

ExportClasses == {"small", "half", "max", "over"}

\* Every id of 1..MaxRecords is absent or has a row of one of the classes.
ExportDatabases ==
    { {ExportRow(id, f[id]) : id \in {n \in 1..MaxRecords : f[n] # "none"}}
      : f \in [1..MaxRecords -> ExportClasses \cup {"none"}] }

FormatIdle ==
    /\ pc = "idle"
    /\ headings = HeadingsShort
    /\ copypasta_list = <<>>
    /\ emphasis = <<>>
    /\ widths = <<0, 0, 0, 0>>
    /\ i = 0
    /\ table = <<>>
    /\ table_list = <<>>
    /\ rendered = <<>>

\* A call of copypasta_export_json(guild_id) about to run.
InitExport ==
    /\ copypastas \in ExportDatabases
    /\ epc = "start"
    /\ copypasta_dicts = <<>>
    /\ j = 0
    /\ cur_file_size = 0
    /\ copypastas_within_limit = <<>>
    /\ copypasta_lists = <<>>
    /\ buffers = <<>>
    /\ FormatIdle
    /\ MarcoIdle
    /\ CommandIdle
    /\ GuildIdle

NextExport == ExportBegin \/ ExportDict \/ ExportReturn

SpecExport == InitExport /\ [][NextExport]_vars

(***************************************************************************)
(* Properties of copypasta_export_json                                     *)
(***************************************************************************)
\* The rows read back from the returned buffers, in buffer order then in
\* the order inside the buffer.
ExportedRows == Flatten([k \in 1..Len(buffers) |-> LoadsList(buffers[k])])

\* The dict of a row dumped alone is over the maximum.
AloneOverMax(row) == NBytes(DumpsDictLines(row, 0, FALSE)) > MAX_FILE_SIZE

\* What a call of copypasta_export_json hands to its caller.
ExportOutputs == [buffers |-> buffers]

\* C7 as stated: every returned buffer is at most MAX_FILE_SIZE bytes.
C7_BufferWithinMaxFileSize ==
    \A k \in 1..Len(buffers) : NBytes(buffers[k]) <= MAX_FILE_SIZE

\* C7 amended: every returned buffer is at most MAX_FILE_SIZE plus 16 bytes,
\* the brackets, newlines and indentation the list adds to one dict.
C7_BufferWithinMaxPlusListOverhead ==
    \A k \in 1..Len(buffers) : NBytes(buffers[k]) <= MAX_FILE_SIZE + 16

\* C7 witness: a returned buffer of exactly MAX_FILE_SIZE + 16 bytes.
C7_Witness ==
    /\ epc = "done"
    /\ \E k \in 1..Len(buffers) : NBytes(buffers[k]) = MAX_FILE_SIZE + 16

\* C8: every returned buffer is at most DISCORD_FILE_BYTE_LIMIT bytes.
C8_BufferWithinDiscordLimit ==
    \A k \in 1..Len(buffers) : NBytes(buffers[k]) <= DISCORD_FILE_BYTE_LIMIT

\* C8 witness: a returned buffer of several dicts that is over
\* MAX_FILE_SIZE, the last dict having been admitted on its size alone.
C8_Witness ==
    /\ epc = "done"
    /\ \E k \in 1..Len(buffers) :
          /\ NBytes(buffers[k]) > MAX_FILE_SIZE
          /\ Len(LoadsList(buffers[k])) > 1

\* C9: the rows read back from the buffers are the rows of the guild in
\* ascending id order without those that alone are over the maximum.
C9_ExportRoundTrip ==
    epc = "done" =>
        ExportedRows = SelectSeq(SortById(copypastas),
                                 LAMBDA row : ~AloneOverMax(row))

\* C9 witness: an export of a guild whose rows of the least and of the
\* greatest id are over the maximum, with a row over the maximum and a row
\* that fits between them.
C9_Witness ==
    /\ epc = "done"
    /\ Len(copypasta_dicts) >= 4
    /\ AloneOverMax(copypasta_dicts[1])
    /\ AloneOverMax(copypasta_dicts[Len(copypasta_dicts)])
    /\ \E k \in 2..(Len(copypasta_dicts) - 1) : AloneOverMax(copypasta_dicts[k])
    /\ \E k \in 2..(Len(copypasta_dicts) - 1) : ~AloneOverMax(copypasta_dicts[k])
    /\ ExportedRows # <<>>

\* C10 as stated: a row that alone is over the maximum is in no buffer and
\* is in the invalid list the export returns.
C10_ExcludedAndReported ==
    epc = "done" =>
        \A row \in copypastas :
            AloneOverMax(row) =>
                /\ \A k \in 1..Len(ExportedRows) : ExportedRows[k] # row
                /\ "invalid" \in DOMAIN ExportOutputs
                /\ \E k \in DOMAIN ExportOutputs.invalid :
                      ExportOutputs.invalid[k] = row

\* C10 amended: a row that alone is over the maximum is in no buffer; the
\* export returns the buffers and nothing else.
C10_ExcludedFromBuffers ==
    epc = "done" =>
        /\ DOMAIN ExportOutputs = {"buffers"}
        /\ \A row \in copypastas :
              AloneOverMax(row) =>
                  \A k \in 1..Len(ExportedRows) : ExportedRows[k].id # row.id

\* C10 witness: an export of a guild with a row over the maximum has
\* returned buffers.
C10_Witness ==
    /\ epc = "done"
    /\ \E row \in copypastas : AloneOverMax(row)
    /\ buffers # <<>>


(***************************************************************************)
(* Widths and table sizes of format_copypasta_list                         *)
(***************************************************************************)
\* A table holding the heading row and the given rows.
BlockOf(rows) ==
    FENCE \o HeaderRow(headings, widths) \o Flatten(rows) \o FENCE

\* The rows rendered so far, in the order of the list.
AllRows == [k \in 1..Len(rendered) |-> rendered[k].row]

\* C11 (as stated): when nothing is left for the content column (the budget
\* is zero or negative) format_copypasta_list fails and returns no table:
\* it never starts on the rows.
C11_InsufficientWidthRaised ==
    ContentBudget(headings, copypasta_list) <= 0
        => /\ pc \notin {"loop", "done"}
           /\ table_list = <<>>

\* C11 (amended): with a budget of zero or less format_copypasta_list
\* raises nothing: the content column gets the width of its heading and
\* the returned tables hold every row.
C11_HeadingWidthWithoutBudget ==
    ContentBudget(headings, copypasta_list) <= 0
        => /\ pc \in {"loop", "done"} => widths[3] = Len(headings[3])
           /\ pc = "done"
                => /\ table_list # <<>>
                   /\ DataLines(table_list) = AllRows
                   /\ Len(AllRows) = Len(copypasta_list)

C11_Witness ==
    /\ pc = "done"
    /\ ContentBudget(headings, copypasta_list) <= 0
    /\ table_list # <<>>

\* C12: when the heading row, one row and the fences alone are longer than
\* DISCORD_CHARACTER_LIMIT, format_copypasta_list fails and returns no
\* table instead of a table longer than the limit.
C12_RowTooLargeRaised ==
    \A k \in 1..Len(rendered) :
        Len(BlockOf(<<rendered[k].row>>)) > DISCORD_CHARACTER_LIMIT
            => /\ pc # "done"
               /\ table_list = <<>>

\* C13 (as stated): in every call that returns tables the four widths and
\* the five separators add up to at most COPYPASTA_LIST_CHARACTERS_PER_ROW.
C13_WidthsWithinRow ==
    (pc = "done" /\ table_list # <<>>)
        => widths[1] + widths[2] + widths[3] + widths[4] + 5
               <= COPYPASTA_LIST_CHARACTERS_PER_ROW

\* C13 (amended): the four widths and the five separators add up to at most
\* COPYPASTA_LIST_CHARACTERS_PER_ROW when the budget of the content column
\* is at least the length of the content heading; with a smaller budget the
\* content column still gets the length of its heading and the sum exceeds
\* the row width by exactly the difference.
C13_WidthsWithinRowOrHeading ==
    (pc = "done" /\ table_list # <<>>)
        => LET sum == widths[1] + widths[2] + widths[3] + widths[4] + 5
               short == Len(headings[3])
                            - (COPYPASTA_LIST_CHARACTERS_PER_ROW - 5
                                   - widths[1] - widths[2] - widths[4])
           IN  IF short <= 0
               THEN sum <= COPYPASTA_LIST_CHARACTERS_PER_ROW
               ELSE sum = COPYPASTA_LIST_CHARACTERS_PER_ROW + short

C13_Witness ==
    /\ pc = "done"
    /\ table_list # <<>>
    /\ widths[1] + widths[2] + widths[3] + widths[4] + 5
           = COPYPASTA_LIST_CHARACTERS_PER_ROW
    /\ \E k \in 1..Len(copypasta_list) :
           Len(copypasta_list[k][3]) > widths[3]

\* C14: when DISCORD_CHARACTER_LIMIT has room for the heading row and one
\* row but not two, n rows come back as n tables of the heading row and one
\* row each; when it has room for the heading row and all rows, they come
\* back as one table of the heading row and all rows.
C14_OneRowPerBlockOrOneBlock ==
    pc = "done"
        => LET rows == AllRows
               n == Len(rows)
               Fits(rr) == Len(BlockOf(rr)) <= DISCORD_CHARACTER_LIMIT
           IN  /\ Fits(rows) => table_list = <<BlockOf(rows)>>
               /\ ( /\ \A k \in 1..n : Fits(<<rows[k]>>)
                    /\ \A k \in 1..(n - 1) : ~Fits(<<rows[k], rows[k + 1]>>) )
                      => table_list = [k \in 1..n |-> BlockOf(<<rows[k]>>)]

(***************************************************************************)
(* marco_polo (functions.py)                                               *)
(***************************************************************************)
\* The characters \w matches, of those the messages and answers are made of.
WordChars ==
    {"m", "a", "r", "c", "o", "p", "l", "M", "A", "R", "C", "O", "P", "L",
     "1", "_"}

\* str.lower for one character.
LowerChar(ch) ==
    CASE ch = "M" -> "m" [] ch = "A" -> "a" [] ch = "R" -> "r"
      [] ch = "C" -> "c" [] ch = "O" -> "o" [] ch = "P" -> "p"
      [] ch = "L" -> "l" [] OTHER -> ch

\* Index of the last character of the longest run of the letter (in either
\* case) that starts at index from; from - 1 when there is none.
RECURSIVE RunEnd(_, _, _)
RunEnd(string, from, letter) ==
    IF from <= Len(string) /\ LowerChar(string[from]) = letter
    THEN RunEnd(string, from + 1, letter)
    ELSE from - 1

\* The ends of the five groups of letters of regexes.MARCO in string.
MarcoEnds(string) ==
    LET em == RunEnd(string, 1, "m")
        ea == RunEnd(string, em + 1, "a")
        er == RunEnd(string, ea + 1, "r")
        ec == RunEnd(string, er + 1, "c")
        eo == RunEnd(string, ec + 1, "o")
    IN  <<0, em, ea, er, ec, eo>>

\* regexes.MARCO.fullmatch(string) is not None.
MARCO_matches(string) ==
    LET e == MarcoEnds(string)
    IN  /\ \A k \in 1..5 : e[k + 1] > e[k]
        /\ \A k \in (e[6] + 1)..Len(string) : string[k] \notin WordChars

\* The groups of regexes.MARCO.fullmatch(string).
MARCO_fullmatch(string) ==
    LET e == MarcoEnds(string)
    IN  [m |-> SubSeq(string, 1, e[2]),
         a |-> SubSeq(string, e[2] + 1, e[3]),
         r |-> SubSeq(string, e[3] + 1, e[4]),
         c |-> SubSeq(string, e[4] + 1, e[5]),
         o |-> SubSeq(string, e[5] + 1, e[6]),
         punctuation |-> SubSeq(string, e[6] + 1, Len(string))]

\* The offsets reaching one character further than the code lets them.
MarcoOffsets_Three == -3..3

\* The offsets random.choices picks from: i - 2 ... i + 2, all of them with
\* a positive weight.
MarcoOffsets == -2..2

\* The values gen_char_amount(string) can return.
GenCharAmounts(string) == {Max2(1, Len(string) + d) : d \in MarcoOffsets}

RECURSIVE SumSeq(_)
SumSeq(ns) == IF ns = <<>> THEN 0 ELSE Head(ns) + SumSeq(Tail(ns))

\* The average rounded up.
GenCharCount_Ceil(amounts) ==
    (SumSeq(amounts) + Len(amounts) - 1) \div Len(amounts)

\* sum(gen_char_amount(s) for s in strings) // len(strings)
GenCharCount(amounts) == SumSeq(amounts) \div Len(amounts)

\* The characters random.choices([sub.lower(), sub.upper()], weights=
\* [1 - uppercase_chance, uppercase_chance]) can return: those of a
\* positive weight.
CaseChoices(strings, sub) ==
    LET joined == Flatten(strings)
        \* the characters ch of the strings with ch.isupper()
        uppers == Cardinality({k \in 1..Len(joined) :
                                 joined[k] \in {"M", "A", "R", "C", "O", "P",
                                                "L"}})
        \* sub.upper(), for the substitutes "P", "O" and "L"
        upper == CASE LowerChar(sub) = "p" -> "P"
                   [] LowerChar(sub) = "o" -> "O"
                   [] LowerChar(sub) = "l" -> "L"
    IN  (IF uppers < Len(joined) THEN {LowerChar(sub)} ELSE {})
            \cup (IF uppers > 0 THEN {upper} ELSE {})

\* The answers can hold any character of a fixed set.
PunctuationChoices_Any(string) == {"!", "?", "."}

\* [*d]: the characters of the punctuation of the message.
PunctuationChoices(string) == {string[k] : k \in 1..Len(string)}

\* character_dicts of marco_polo.
character_dicts(match) ==
    <<[sub |-> "P", strings |-> <<match.m>>],
      [sub |-> "O", strings |-> <<match.a>>],
      [sub |-> "L", strings |-> <<match.r, match.c>>],
      [sub |-> "O", strings |-> <<match.o>>]>>

\* bot.py line 96 and functions.py lines 108-115: the message matches and
\* marco_polo starts.
MarcoMatch ==
    /\ mpc = "start"
    /\ MARCO_matches(marco_string)
    /\ marco_match' = MARCO_fullmatch(marco_string)
    /\ marco_s' = <<>>
    /\ marco_k' = 0
    /\ marco_amounts' = <<>>
    /\ mpc' = "letters"
    /\ UNCHANGED marco_string
    /\ UNCHANGED <<fvars, evars, cvars, gvars>>

\* Lines 117-118: one iteration of the loop over character_dicts, a call of
\* gen_char_string.
MarcoGenCharString ==
    /\ mpc = "letters"
    /\ marco_k < 4
    /\ LET d == character_dicts(marco_match)[marco_k + 1]
           n == Len(d.strings)
       IN  \E amounts \in [1..n -> 1..(Len(marco_string) + 3)] :
               /\ \A k \in 1..n : amounts[k] \in GenCharAmounts(d.strings[k])
               /\ \E chars \in [1..GenCharCount(amounts)
                                   -> CaseChoices(d.strings, d.sub)] :
                      marco_s' = marco_s \o chars
               /\ marco_amounts' = Append(marco_amounts, amounts)
    /\ marco_k' = marco_k + 1
    /\ UNCHANGED <<mpc, marco_string, marco_match>>
    /\ UNCHANGED <<fvars, evars, cvars, gvars>>

\* Lines 120-123: the message has punctuation; gen_punctuation_string and
\* return.
MarcoPunctuation ==
    /\ mpc = "letters"
    /\ marco_k = 4
    /\ marco_match.punctuation # <<>>
    /\ \E n \in GenCharAmounts(marco_match.punctuation) :
           /\ \E chars \in
                  [1..n -> PunctuationChoices(marco_match.punctuation)] :
                  marco_s' = marco_s \o chars
           /\ marco_amounts' = Append(marco_amounts, <<n>>)
    /\ mpc' = "done"
    /\ UNCHANGED <<marco_string, marco_match, marco_k>>
    /\ UNCHANGED <<fvars, evars, cvars, gvars>>

\* Lines 120 and 123: the message has no punctuation; return.
MarcoReturn ==
    /\ mpc = "letters"
    /\ marco_k = 4
    /\ marco_match.punctuation = <<>>
    /\ mpc' = "done"
    /\ UNCHANGED <<marco_string, marco_match, marco_k, marco_amounts,
                   marco_s>>
    /\ UNCHANGED <<fvars, evars, cvars, gvars>>

(***************************************************************************)
(* Messages sent to marco_polo                                             *)
(***************************************************************************)
\* Longest run of "r" and of "c" in a message.
MaxRun == 4
\* Most characters of punctuation in a message.
MaxPunct == 3

\* "Marco" with runs of the given lengths, in lower case, in upper case or
\* with a capital first letter.
MarcoWord(nm, na, nr, nc, no, case) ==
    LET low == Rep("m", nm) \o Rep("a", na) \o Rep("r", nr) \o Rep("c", nc)
                   \o Rep("o", no)
    IN  CASE case = "lower" -> low
          [] case = "upper" ->
                 Rep("M", nm) \o Rep("A", na) \o Rep("R", nr) \o Rep("C", nc)
                     \o Rep("O", no)
          [] case = "capital" -> <<"M">> \o Tail(low)

MarcoStrings ==
    { MarcoWord(1, 1, nr, nc, 1, "lower") : nr \in 1..MaxRun, nc \in 1..MaxRun }
    \cup { MarcoWord(nm, 1, 1, 1, no, case)
             : nm \in {1, 2}, no \in {1, 3},
               case \in {"lower", "upper", "capital"} }
    \cup { MarcoWord(1, 1, 1, 1, 1, "lower") \o Rep("!", n - 1) \o <<"?">>
             : n \in 1..MaxPunct }

\* A message has arrived: a "Marco", or one of four that are none.
InitMarco ==
    /\ marco_string \in
           MarcoStrings
           \cup { <<"m", "a", "r", "o">>, <<"p", "o", "l", "o">>,
                  <<"m", "a", "r", "c", "o", "1">>,
                  <<"!", "m", "a", "r", "c", "o">> }
    /\ mpc = "start"
    /\ marco_match = <<>>
    /\ marco_k = 0
    /\ marco_amounts = <<>>
    /\ marco_s = <<>>
    /\ FormatIdle
    /\ ExportIdle
    /\ CommandIdle
    /\ GuildIdle

NextMarco ==
    MarcoMatch \/ MarcoGenCharString \/ MarcoPunctuation \/ MarcoReturn

SpecMarco == InitMarco /\ [][NextMarco]_vars

(***************************************************************************)
(* Properties of marco_polo                                                *)
(***************************************************************************)
\* The answer read as runs: the lengths of the runs of p, o, l and o it
\* starts with, and what follows them.
AnswerRuns ==
    LET ep == RunEnd(marco_s, 1, "p")
        eo == RunEnd(marco_s, ep + 1, "o")
        el == RunEnd(marco_s, eo + 1, "l")
        eo2 == RunEnd(marco_s, el + 1, "o")
    IN  [P |-> ep, O |-> eo - ep, L |-> el - eo, O2 |-> eo2 - el,
         punctuation |-> SubSeq(marco_s, eo2 + 1, Len(marco_s))]

Within2(x, y) == x - y <= 2 /\ y - x <= 2

\* The P run and the two O runs are at least one letter long and within 2
\* of the runs of m, a and o of the message; what follows the letters is
\* free of letters.
RunsOfPAndO ==
    LET runs == AnswerRuns
    IN  /\ marco_s # <<>>
        /\ runs.P >= 1 /\ Within2(runs.P, Len(marco_match.m))
        /\ runs.O >= 1 /\ Within2(runs.O, Len(marco_match.a))
        /\ runs.O2 >= 1 /\ Within2(runs.O2, Len(marco_match.o))
        /\ runs.L >= 1
        /\ \A k \in 1..Len(runs.punctuation) :
               runs.punctuation[k] \notin WordChars

\* C16 (as stated): the answer to a message matching MARCO is a run of P,
\* of O, of L and of O, then the punctuation if any; the P and O runs are
\* at least 1 long and within 2 of the m, a and o runs of the message; the
\* L run is at least 1 long and within 2 of the mean of the r and c runs.
C16_RunsWithinTwoOfMean ==
    mpc = "done"
        => /\ RunsOfPAndO
           /\ LET twice == 2 * AnswerRuns.L
                  sum == Len(marco_match.r) + Len(marco_match.c)
              IN  twice - sum <= 4 /\ sum - twice <= 4

\* C16 (amended): as stated, but the L run is within 2 of the mean of the
\* r and c runs rounded down (it can be 2.5 below the mean itself).
C16_RunsWithinTwoOfFloorMean ==
    mpc = "done"
        => /\ RunsOfPAndO
           /\ Within2(AnswerRuns.L,
                      (Len(marco_match.r) + Len(marco_match.c)) \div 2)

C16_Witness ==
    /\ mpc = "done"
    /\ 2 * AnswerRuns.L + 5 = Len(marco_match.r) + Len(marco_match.c)

\* The lengths of the four runs of letters of the answer.
RunLengths ==
    <<AnswerRuns.P, AnswerRuns.O, AnswerRuns.L, AnswerRuns.O2>>

\* C17 (as stated): gen_char_string emits as many letters as the average of
\* the amounts drawn for its strings, rounded: for the L group an average
\* ending in .5 is rounded, not truncated.
C17_LettersRoundedAverage ==
    LET \* the average rounded to the nearest integer, halves up
        RoundedAverage(amounts) ==
            (2 * SumSeq(amounts) + Len(amounts)) \div (2 * Len(amounts))
    IN  mpc = "done"
            => \A g \in 1..4 :
                   RunLengths[g] = RoundedAverage(marco_amounts[g])

\* C17 (amended): gen_char_string emits as many letters as the average of
\* the amounts drawn for its strings rounded down: for the L group an
\* average ending in .5 is truncated.
C17_LettersFloorAverage ==
    mpc = "done"
        => \A g \in 1..4 :
               /\ Len(marco_amounts[g]) * RunLengths[g]
                      <= SumSeq(marco_amounts[g])
               /\ SumSeq(marco_amounts[g])
                      < Len(marco_amounts[g]) * (RunLengths[g] + 1)

C17_Witness ==
    /\ mpc = "done"
    /\ SumSeq(marco_amounts[3]) = 2 * AnswerRuns.L + 1

\* C18: with punctuation in the message the answer ends with as many
\* characters as gen_char_amount drew for it, at least 1 and within 2 of the
\* length of the punctuation of the message, each of them a character of
\* that punctuation; without punctuation the answer ends with the last O
\* run and holds no punctuation.
C18_PunctuationFromMessage ==
    mpc = "done"
        => LET tail == AnswerRuns.punctuation
           IN  IF marco_match.punctuation # <<>>
               THEN /\ Len(marco_amounts) = 5
                    /\ Len(tail) = marco_amounts[5][1]
                    /\ Len(tail) >= 1
                    /\ Within2(Len(tail), Len(marco_match.punctuation))
                    /\ \A k \in 1..Len(tail) :
                           \E q \in 1..Len(marco_match.punctuation) :
                               tail[k] = marco_match.punctuation[q]
               ELSE /\ tail = <<>>
                    /\ Len(marco_amounts) = 4
                    /\ AnswerRuns.O2 >= 1
                    /\ LowerChar(marco_s[Len(marco_s)]) = "o"

C18_Witness ==
    /\ mpc = "done"
    /\ Len(marco_match.punctuation) = 1
    /\ Len(AnswerRuns.punctuation) = 3


(***************************************************************************)
(* The regular expressions of the copypasta command (regexes.py)           *)
(***************************************************************************)
LOWERS ==
    <<"a", "b", "c", "d", "e", "f", "g", "h", "i", "j", "k", "l", "m", "n",
      "o", "p", "q", "r", "s", "t", "u", "v", "w", "x", "y", "z">>

UPPERS ==
    <<"A", "B", "C", "D", "E", "F", "G", "H", "I", "J", "K", "L", "M", "N",
      "O", "P", "Q", "R", "S", "T", "U", "V", "W", "X", "Y", "Z">>

DIGITS == <<"0", "1", "2", "3", "4", "5", "6", "7", "8", "9">>

IndexIn(seq, ch) ==
    IF \E k \in 1..Len(seq) : seq[k] = ch
    THEN CHOOSE k \in 1..Len(seq) : seq[k] = ch
    ELSE 0

\* re.IGNORECASE compares letters without their case.
ToLower(ch) == IF IndexIn(UPPERS, ch) # 0 THEN LOWERS[IndexIn(UPPERS, ch)] ELSE ch

\* str.upper
StrUpper(string) ==
    [k \in 1..Len(string) |->
        IF IndexIn(LOWERS, string[k]) # 0
        THEN UPPERS[IndexIn(LOWERS, string[k])]
        ELSE string[k]]

IsDigit(ch) == IndexIn(DIGITS, ch) # 0
\* \w and \s; "." matches every character but "\n" without re.DOTALL.
IsWord(ch) == IndexIn(LOWERS, ToLower(ch)) # 0 \/ IsDigit(ch) \/ ch = "_"
IsSpace(ch) == ch \in {" ", "\n", "\t"}

\* The literal (given in lower case) stands in string after the first p
\* characters.
MatchLit(string, p, lit) ==
    /\ p + Len(lit) <= Len(string)
    /\ \A k \in 1..Len(lit) : ToLower(string[p + k]) = lit[k]

\* \b after the first q characters of string.
BoundaryAt(string, q) ==
    LET before == q >= 1 /\ q <= Len(string) /\ IsWord(string[q])
        after == q + 1 <= Len(string) /\ IsWord(string[q + 1])
    IN  before # after

\* (?:alt1|alt2|...)\b tried after the first p characters: the number of
\* the first alternative that matches with a word boundary after it, or 0.
FlagAt(string, p, alts) ==
    LET ok == {n \in 1..Len(alts) :
                  /\ MatchLit(string, p, alts[n])
                  /\ BoundaryAt(string, p + Len(alts[n]))}
    IN  IF ok = {} THEN 0 ELSE SetMin(ok)

\* pattern.search(string) for (?P<group>alt1|alt2|...)\b: the group of the
\* leftmost match, as written in string; <<>> when there is no match.
FlagSearch(string, alts) ==
    LET at == {p \in 0..(Len(string) - 1) : FlagAt(string, p, alts) # 0}
    IN  IF at = {} THEN <<>>
        ELSE LET p == SetMin(at)
             IN  SubSeq(string, p + 1, p + Len(alts[FlagAt(string, p, alts)]))

\* The number of characters the first literal of alts that stands at the
\* start of string takes, for every literal that does: the prefixes a
\* pattern starting with (?:alt1|alt2) can continue after.
PrefixLens(string, alts) ==
    {Len(alts[n]) : n \in {q \in 1..Len(alts) : MatchLit(string, 0, alts[q])}}

\* The number of whitespace characters string has after its first p.
RECURSIVE SpacesFrom(_, _)
SpacesFrom(string, p) ==
    IF p + 1 <= Len(string) /\ IsSpace(string[p + 1])
    THEN 1 + SpacesFrom(string, p + 1)
    ELSE 0

\* .+ (without re.DOTALL) matches all of string after its first p.
DotsFrom(string, p) ==
    /\ p < Len(string)
    /\ \A k \in (p + 1)..Len(string) : string[k] # "\n"

\* The flags of the patterns of the command, the alternatives in the order
\* of the pattern. (The usage of the command, lines 66-67, names the flags
\* of the two ban forms; regexes.py has no pattern for them.)
FLAGS ==
    [ID_OPTIONAL |-> <<<<"-", "i">>, <<"-", "-", "i", "d">>>>,
     ADD_OPTIONAL_VALUE |-> <<<<"-", "a">>, <<"-", "-", "a", "d", "d">>>>,
     DELETE |-> <<<<"-", "d">>, <<"-", "-", "d", "e", "l", "e", "t", "e">>>>,
     SET_CHANNEL_OPTIONAL_VALUE |->
         <<<<"-", "s", "c">>,
           <<"-", "-", "s", "e", "t", "-", "c", "h", "a", "n", "n", "e", "l">>>>,
     SEARCH |-> <<<<"-", "s">>, <<"-", "-", "s", "e", "a", "r", "c", "h">>>>,
     LIST_INDEPENDENT |-> <<<<"-", "l">>, <<"-", "-", "l", "i", "s", "t">>>>,
     EXPORT_INDEPENDENT |->
         <<<<"-", "e">>, <<"-", "-", "e", "x", "p", "o", "r", "t">>>>,
     IMPORT_INDEPENDENT_VERBOSE |->
         <<<<"-", "-", "i", "m", "p", "o", "r", "t">>>>,
     TITLE_OPTIONAL |-> <<<<"-", "t">>, <<"-", "-", "t", "i", "t", "l", "e">>>>,
     BAN_INDEPENDENT |-> <<<<"-", "b">>, <<"-", "-", "b", "a", "n">>>>,
     UNBAN_INDEPENDENT |->
         <<<<"-", "u">>, <<"-", "-", "u", "n", "b", "a", "n">>>>,
     COPYPASTA_LIST_DATABASE_FIELDS |->
         <<<<"-", "i">>, <<"-", "-", "i", "d">>, <<"-", "t">>,
           <<"-", "-", "t", "i", "t", "l", "e">>, <<"-", "c">>,
           <<"-", "-", "c", "o", "n", "t", "e", "n", "t">>,
           <<"-", "-", "c", "o", "u", "n", "t">>>>,
     COPYPASTA_LIST_ARRANGEMENT |->
         <<<<"-", "a">>,
           <<"-", "-", "a", "s", "c", "e", "n", "d", "i", "n", "g">>,
           <<"-", "d">>,
           <<"-", "-", "d", "e", "s", "c", "e", "n", "d", "i", "n", "g">>>>]

\* \d+(?:\s*,\s*\d+)* matches all of string after its first p characters.
RECURSIVE IdsFrom(_, _)
IdsFrom(string, p) ==
    LET digits == {q \in (p + 1)..Len(string) :
                      \A k \in (p + 1)..q : IsDigit(string[k])}
    IN  \E q \in digits :
           \/ q = Len(string)
           \/ LET c == q + SpacesFrom(string, q)
              IN  /\ c + 1 <= Len(string)
                  /\ string[c + 1] = ","
                  /\ IdsFrom(string, c + 1 + SpacesFrom(string, c + 1))

\* The group (.+) of (?:flag1|flag2)?\s*(.+) on a full match of string, the
\* flag being optional or not: the alternatives in order, \s* as long as it
\* can be; <<>> when there is no match.
ValueAfterFlag(string, alts, optional) ==
    LET tries ==
            [n \in 1..Len(alts) |->
                IF MatchLit(string, 0, alts[n]) THEN Len(alts[n]) ELSE -1]
            \o (IF optional THEN <<0>> ELSE <<>>)
        Ok(p) == p >= 0
                   /\ \E w \in 0..SpacesFrom(string, p) :
                          DotsFrom(string, p + w)
        good == {n \in 1..Len(tries) : Ok(tries[n])}
    IN  IF good = {} THEN <<>>
        ELSE LET p == tries[SetMin(good)]
                 w == SetMax({v \in 0..SpacesFrom(string, p) :
                                 DotsFrom(string, p + v)})
             IN  SubSeq(string, p + w + 1, Len(string))

\* SEARCH.fullmatch(arguments)["query"]
SEARCH_query(string) == ValueAfterFlag(string, FLAGS.SEARCH, FALSE)

\* TITLE_OPTIONAL.fullmatch(arguments)["title"]
TITLE_OPTIONAL_title(string) == ValueAfterFlag(string, FLAGS.TITLE_OPTIONAL, TRUE)

\* The branch of the if/elif chain of the command that serves arguments
\* (never None here): lines 382-659, in their order.
Branch(string, has_attachments) ==
    LET \* pattern.match(arguments) of an independent flag: (?:f1|f2)\b
        Independent(alts) == FlagAt(string, 0, alts) # 0
        \* (?:-i|--id)?\s*\d+
        ID_OPTIONAL ==
            \E p \in {0} \cup PrefixLens(string, FLAGS.ID_OPTIONAL) :
                LET d == p + SpacesFrom(string, p)
                IN  /\ d < Len(string)
                    /\ \A k \in (d + 1)..Len(string) : IsDigit(string[k])
        \* (?:-a|--add)\s*(.+)? with re.DOTALL
        ADD_OPTIONAL_VALUE ==
            PrefixLens(string, FLAGS.ADD_OPTIONAL_VALUE) # {}
        \* (?:-d|--delete)\s*\d+(?:\s*,\s*\d+)*
        DELETE ==
            \E p \in PrefixLens(string, FLAGS.DELETE) :
                IdsFrom(string, p + SpacesFrom(string, p))
        \* (?:-sc|--set-channel)\s*(.+)?: the flag, then nothing or
        \* characters other than newlines (whitespace goes to \s* or to .+)
        SET_CHANNEL_OPTIONAL_VALUE ==
            \E p \in PrefixLens(string, FLAGS.SET_CHANNEL_OPTIONAL_VALUE) :
                \E w \in 0..SpacesFrom(string, p) :
                    p + w = Len(string) \/ DotsFrom(string, p + w)
        \* (?:-e|--export) and nothing else
        EXPORT_INDEPENDENT ==
            \E n \in 1..Len(FLAGS.EXPORT_INDEPENDENT) :
                /\ MatchLit(string, 0, FLAGS.EXPORT_INDEPENDENT[n])
                /\ Len(string) = Len(FLAGS.EXPORT_INDEPENDENT[n])
    IN  IF ID_OPTIONAL THEN "id"
        ELSE IF ADD_OPTIONAL_VALUE THEN "add"
        ELSE IF DELETE THEN "delete"
        ELSE IF SET_CHANNEL_OPTIONAL_VALUE THEN "set-channel"
        ELSE IF SEARCH_query(string) # <<>> THEN "search"
        ELSE IF Independent(FLAGS.LIST_INDEPENDENT) THEN "list"
        ELSE IF EXPORT_INDEPENDENT THEN "export"
        ELSE IF Independent(FLAGS.IMPORT_INDEPENDENT_VERBOSE) /\ has_attachments
        THEN "import"
        ELSE IF Independent(FLAGS.BAN_INDEPENDENT) THEN "ban"
        ELSE IF Independent(FLAGS.UNBAN_INDEPENDENT) THEN "unban"
        ELSE IF TITLE_OPTIONAL_title(string) # <<>> THEN "title"
        ELSE "none"

(***************************************************************************)
(* The table copypastas of a guild (functions.py)                          *)
(***************************************************************************)
\* The characters of a stored text (texts are stored as runs, <<c, n>>).
RECURSIVE Expand(_)
Expand(text) ==
    IF text = <<>> THEN <<>>
    ELSE Rep(Head(text)[1], Head(text)[2]) \o Expand(Tail(text))

\* len(text)
RECURSIVE TextLen(_)
TextLen(text) ==
    IF text = <<>> THEN 0 ELSE Head(text)[2] + TextLen(Tail(text))

\* The runs of a string.
RECURSIVE Compress(_)
Compress(string) ==
    IF string = <<>> THEN <<>>
    ELSE LET n == CHOOSE q \in 1..Len(string) :
                      /\ \A k \in 1..q : string[k] = string[1]
                      /\ q = Len(string) \/ string[q + 1] # string[1]
         IN  <<<<string[1], n>>>> \o Compress(SubSeq(string, n + 1, Len(string)))

\* value LIKE pattern, as PostgreSQL (settings.FILE_BASED_DATABASE is False)
\* evaluates it: "%" stands for any characters, "_" for one, and a backslash
\* makes the character after it stand for itself. (A pattern that ends with
\* a lone backslash is an error in PostgreSQL; no text of the model does.)
RECURSIVE Like(_, _)
Like(value, pattern) ==
    IF pattern = <<>> THEN value = <<>>
    ELSE IF Head(pattern) = "%"
    THEN \E k \in 0..Len(value) :
             Like(SubSeq(value, k + 1, Len(value)), Tail(pattern))
    ELSE IF Head(pattern) = "\\"
    THEN /\ Len(pattern) >= 2
         /\ value # <<>>
         /\ pattern[2] = Head(value)
         /\ Like(Tail(value), SubSeq(pattern, 3, Len(pattern)))
    ELSE /\ value # <<>>
         /\ Head(pattern) = "_" \/ Head(pattern) = Head(value)
         /\ Like(Tail(value), Tail(pattern))

\* x <= y in ORDER BY title and ORDER BY content.
RECURSIVE StringLeq(_, _)
StringLeq(x, y) ==
    LET CHAR_ORDER == <<" ", "%", "-", ".">> \o DIGITS \o UPPERS \o <<"_">>
                          \o LOWERS
    IN  IF x = <<>> THEN TRUE
        ELSE IF y = <<>> THEN FALSE
        ELSE IF Head(x) = Head(y) THEN StringLeq(Tail(x), Tail(y))
        ELSE IndexIn(CHAR_ORDER, Head(x)) < IndexIn(CHAR_ORDER, Head(y))

\* The WHERE clause of database_copypasta_search on the rows of the guild.
SearchRows(rows, query, by_title, exact_match) ==
    LET pattern == IF exact_match THEN query
                   ELSE <<"%">> \o query \o <<"%">>
    IN  {row \in rows :
            \/ Like(Expand(row.title), pattern)
            \/ ~by_title /\ Like(Expand(row.content), pattern)}

\* The lists fetchall can return for the rows found, each row a tuple (id,
\* title, content, count): a row that ORDER BY field arrangement lets
\* stand before every other one, then the others likewise. Rows that are
\* equal in the field stand in any order.
RECURSIVE FetchAll(_, _, _)
FetchAll(found, field, arrangement) ==
    LET Leq(x, y) == IF field \in {"id", "count"}
                     THEN x[field] <= y[field]
                     ELSE StringLeq(Expand(x[field]), Expand(y[field]))
        OrderedBy(row1, row2) ==
            IF arrangement = "ASC" THEN Leq(row1, row2) ELSE Leq(row2, row1)
    IN  IF found = {} THEN {<<>>}
        ELSE UNION {{<<<<first.id, Expand(first.title),
                         Expand(first.content), first.count>>>> \o rest :
                        rest \in FetchAll(found \ {first}, field,
                                          arrangement)} :
                    first \in {row \in found :
                                  \A other \in found : OrderedBy(row, other)}}

\* database_copypasta_search(guild_id, query, by_title, exact_match, field,
\* arrangement).fetchall()
database_copypasta_search(rows, query, by_title, exact_match, field, arrangement) ==
    FetchAll(SearchRows(rows, query, by_title, exact_match), field,
             arrangement)

\* database_copypasta_get(guild_id, copypasta_id): the table after the
\* count of the row was incremented.
database_copypasta_get(rows, copypasta_id) ==
    {IF row.id = copypasta_id
     THEN [row EXCEPT !.count = row.count + 1] ELSE row : row \in rows}

\* The new row numbered by the number of rows instead of the largest id.
database_copypasta_add_Counted(rows, title, content) ==
    rows \cup {[id |-> Cardinality(rows) + 1, title |-> title,
                content |-> content, count |-> 0]}

\* database_copypasta_add: the table with the new row, whose id is one more
\* than the largest id of the guild, or 1.
database_copypasta_add(rows, title, content) ==
    rows \cup {[id |-> IF rows = {} THEN 1
                       ELSE SetMax({row.id : row \in rows}) + 1,
                title |-> title, content |-> content, count |-> 0]}

(***************************************************************************)
(* copypasta_import_json (functions.py)                                    *)
(***************************************************************************)
DISCORD_EMBED_TITLE_LIMIT == 256
DISCORD_EMBED_DESCRIPTION_LIMIT == 2048

\* The lines, read from the k-th on, are a JSON document of the kind an
\* export writes: "[]", or "[" and "]" around dicts that are separated by
\* commas, every dict a "{" and a "}" around items that are separated by
\* commas.
RECURSIVE JsonFrom(_, _, _)
JsonFrom(lines, k, expect) ==
    IF k > Len(lines) THEN expect = "end"
    ELSE LET line == lines[k]
         IN  CASE expect = "list" ->
                    \/ line.kind = "[]" /\ ~line.comma
                           /\ JsonFrom(lines, k + 1, "end")
                    \/ line.kind = "[" /\ ~line.comma
                           /\ JsonFrom(lines, k + 1, "dict or ]")
               [] expect = "dict or ]" ->
                    \/ line.kind = "]" /\ ~line.comma
                           /\ JsonFrom(lines, k + 1, "end")
                    \/ line.kind = "{" /\ ~line.comma
                           /\ JsonFrom(lines, k + 1, "item or }")
               [] expect = "dict" ->
                    line.kind = "{" /\ ~line.comma
                        /\ JsonFrom(lines, k + 1, "item or }")
               [] expect = "item or }" ->
                    \/ line.kind = "item"
                           /\ JsonFrom(lines, k + 1,
                                       IF line.comma THEN "item" ELSE "}")
                    \/ line.kind = "}"
                           /\ JsonFrom(lines, k + 1,
                                       IF line.comma THEN "dict" ELSE "]")
               [] expect = "item" ->
                    line.kind = "item"
                        /\ JsonFrom(lines, k + 1,
                                    IF line.comma THEN "item" ELSE "}")
               [] expect = "}" ->
                    line.kind = "}"
                        /\ JsonFrom(lines, k + 1,
                                    IF line.comma THEN "dict" ELSE "]")
               [] expect = "]" ->
                    line.kind = "]" /\ ~line.comma
                        /\ JsonFrom(lines, k + 1, "end")
               [] OTHER -> FALSE

\* json.loads(data) for the bytes of a file: the exception it raises ("" for
\* none) and the value it returns.
json_loads(data) ==
    IF ~data.utf8
    THEN [raised |-> "UnicodeDecodeError", value |-> <<>>]
    ELSE IF ~JsonFrom(data.lines, 1, "list")
    THEN [raised |-> "JSONDecodeError", value |-> <<>>]
    ELSE LET \* the dicts, each a function of the keys it holds (the last
             \* item of a key standing for the key)
             lines == data.lines
             opens == SelectSeq([n \in 1..Len(lines) |-> n],
                                LAMBDA n : lines[n].kind = "{")
             CloseOf(n) ==
                 SetMin({q \in n..Len(lines) : lines[q].kind = "}"})
             Dict(d) ==
                 LET items == (opens[d] + 1)..(CloseOf(opens[d]) - 1)
                 IN  [key \in {lines[n].key : n \in items} |->
                        lines[SetMax({n \in items :
                                         lines[n].key = key})].value]
         IN  [raised |-> "", value |-> [d \in 1..Len(opens) |-> Dict(d)]]

\* FIRST_FEW_WORDS.match(content)[1]; <<>> when there is no match.
FIRST_FEW_WORDS(content) ==
    LET n == Len(content)
        Dots(q) == \A k \in 2..(q + 1) : content[k] # "\n"
        lazy == {q \in 4..64 : q + 2 <= n /\ Dots(q) /\ content[q + 2] = "."}
        greedy == {q \in 4..64 :
                      /\ q + 2 <= n
                      /\ Dots(q)
                      /\ ~IsSpace(content[q + 2])
                      /\ BoundaryAt(content, q + 2)}
        run == {q \in 1..n : \A k \in 1..q : ~IsSpace(content[k])}
    IN  IF n = 0 \/ IsSpace(content[1]) THEN <<>>
        ELSE IF lazy # {} THEN SubSeq(content, 1, SetMin(lazy) + 2)
        ELSE IF greedy # {} THEN SubSeq(content, 1, SetMax(greedy) + 2)
        ELSE SubSeq(content, 1, SetMax(run))

\* The loop of copypasta_import_json over the parsed entries from the k-th
\* on: the table and the three lists it ends with.
RECURSIVE ImportFrom(_, _, _)
ImportFrom(parsed, k, acc) ==
    IF k > Len(parsed) THEN acc
    ELSE
      LET copypasta == parsed[k]
          Invalid == [acc EXCEPT !.invalid = Append(@, copypasta)]
      IN  IF ~({"title", "content"} \subseteq DOMAIN copypasta)
          THEN ImportFrom(parsed, k + 1, Invalid)
          ELSE
            LET content == copypasta["content"]
                exists == SearchRows(acc.rows, Expand(content), FALSE, TRUE)
                first == FIRST_FEW_WORDS(Expand(content))
                title == IF copypasta["title"] # <<>>
                         THEN copypasta["title"] ELSE Compress(first)
            IN  IF exists # {}
                THEN ImportFrom(parsed, k + 1,
                         [acc EXCEPT !.ignored = Append(@, copypasta)])
                ELSE IF copypasta["title"] = <<>> /\ first = <<>>
                THEN ImportFrom(parsed, k + 1, Invalid)
                ELSE IF \/ TextLen(content) > DISCORD_EMBED_DESCRIPTION_LIMIT
                        \/ TextLen(title) > DISCORD_EMBED_TITLE_LIMIT
                THEN ImportFrom(parsed, k + 1, Invalid)
                ELSE ImportFrom(parsed, k + 1,
                         [acc EXCEPT
                            !.rows = database_copypasta_add(@, title, content),
                            !.imported = Append(@, copypasta)])

\* copypasta_import_json(data, guild_id): what it returns ("None", or
\* "tuple" with the four lists), the exception it lets through and the
\* table afterwards.
copypasta_import_json(data, rows) ==
    LET loaded == json_loads(data)
        none == [rows |-> rows, imported |-> <<>>, ignored |-> <<>>,
                 invalid |-> <<>>]
        done == ImportFrom(loaded.value, 1, none)
    IN  IF loaded.raised = "JSONDecodeError"
        THEN [returned |-> "None", raised |-> "", parsed |-> <<>>] @@ none
        ELSE IF loaded.raised # ""
        THEN [returned |-> "", raised |-> loaded.raised, parsed |-> <<>>]
                 @@ none
        ELSE [returned |-> "tuple", raised |-> "", parsed |-> loaded.value]
                 @@ done


(***************************************************************************)
(* The copypasta command (cogs/entertainment.py)                           *)
(***************************************************************************)
\* The variables of copypasta_export_json but the table.
exvars == <<epc, copypasta_dicts, j, cur_file_size, copypastas_within_limit,
            copypasta_lists, buffers>>

\* FIELDS[field] and ARRANGEMENTS[arrangement], the keys in upper case.
FIELDS(field) ==
    CASE field = <<>> -> "count"
      [] field \in {<<"-", "I">>, <<"-", "-", "I", "D">>} -> "id"
      [] field \in {<<"-", "T">>, <<"-", "-", "T", "I", "T", "L", "E">>}
             -> "title"
      [] field \in {<<"-", "C">>,
                    <<"-", "-", "C", "O", "N", "T", "E", "N", "T">>}
             -> "content"
      [] field = <<"-", "-", "C", "O", "U", "N", "T">> -> "count"

ARRANGEMENTS(arrangement) ==
    CASE arrangement = <<>> -> "DESC"
      [] arrangement \in {<<"-", "A">>, StrUpper(FLAGS.COPYPASTA_LIST_ARRANGEMENT[2])}
             -> "ASC"
      [] arrangement \in {<<"-", "D">>, StrUpper(FLAGS.COPYPASTA_LIST_ARRANGEMENT[4])}
             -> "DESC"

\* The arrangement looked up whether a field is given or not.
OrderArrangement_Lookup(field, arrangement) == ARRANGEMENTS(arrangement)

\* "ASC" if field and not arrangement else ARRANGEMENTS[arrangement]
OrderArrangement(field, arrangement) ==
    IF field # <<>> /\ arrangement = <<>>
    THEN "ASC"
    ELSE ARRANGEMENTS(arrangement)

\* The check left out: no result is ever taken for none.
NoneFound_Never(results) == FALSE

\* if not results
NoneFound(results) == results = <<>>

\* What a command did: its branch, the messages it sent, the ORDER BY of
\* its search and the rows found, the calls of format_copypasta_list, and
\* for an import what copypasta_import_json returned or raised.
NoOutcome ==
    [branch |-> "none", messages |-> <<>>, order |-> <<>>, results |-> <<>>,
     format_calls |-> <<>>, returned |-> "", raised |-> "",
     parsed |-> <<>>, imported |-> <<>>, ignored |-> <<>>, invalid |-> <<>>]

\* Largest count a row reaches by being sent.
MaxCount == 3

(***************************************************************************)
(* Commands sent to a guild                                                *)
(***************************************************************************)
SP == <<" ">>

\* copypasta --list with no, one or both of a field and an arrangement, in
\* either order; and in upper case with none or one of them.
ListArguments ==
    LET Flags(alts) == {alts[n] : n \in 1..Len(alts)}
        fields == Flags(FLAGS.COPYPASTA_LIST_DATABASE_FIELDS)
        orders == Flags(FLAGS.COPYPASTA_LIST_ARRANGEMENT)
        short == FLAGS.LIST_INDEPENDENT[1]
        long == StrUpper(FLAGS.LIST_INDEPENDENT[2])
    IN  {short, long}
        \cup {short \o SP \o f : f \in fields}
        \cup {short \o SP \o o : o \in orders}
        \cup {short \o SP \o f \o SP \o o : f \in fields, o \in orders}
        \cup {short \o SP \o o \o SP \o f : f \in fields, o \in orders}
        \cup {long \o SP \o StrUpper(f) : f \in fields}
        \cup {long \o SP \o StrUpper(o) : o \in orders}

\* The arguments of the commands: lists, searches and lookups by title that
\* find several rows, one row or none, and an import.
ArgumentPool ==
    ListArguments
    \cup {FLAGS.SEARCH[1] \o SP \o <<"a">>,
          FLAGS.SEARCH[2] \o SP \o <<"x", "a">>,
          FLAGS.SEARCH[1] \o SP \o <<"z", "z">>,
          FLAGS.TITLE_OPTIONAL[1] \o SP \o <<"b">>, <<"a", "b">>,
          FLAGS.TITLE_OPTIONAL[2] \o SP \o <<"z", "z">>,
          FLAGS.IMPORT_INDEPENDENT_VERBOSE[1]}

\* The branch of the command taken by each of the arguments, without and
\* with a file attached.
BranchTaken ==
    [args \in ArgumentPool, has_attachments \in BOOLEAN |->
        Branch(args, has_attachments)]

\* Lines 562-576: the field and the arrangement the list branch orders by,
\* for each of the arguments that take the branch.
ListOrderTaken ==
    [args \in {a \in ArgumentPool : BranchTaken[a, FALSE] = "list"} |->
        LET field ==
                StrUpper(FlagSearch(args, FLAGS.COPYPASTA_LIST_DATABASE_FIELDS))
            arrangement ==
                StrUpper(FlagSearch(args, FLAGS.COPYPASTA_LIST_ARRANGEMENT))
        IN  <<FIELDS(field), OrderArrangement(field, arrangement)>>]

\* The rows of a guild: two rows have the same count, no two the same
\* title or content.
StoredRow(id) ==
    CASE id = 1 -> [id |-> 1, title |-> Compress(<<"a", "b">>),
                    content |-> Compress(<<"x", "a", "y">>), count |-> 2]
      [] id = 2 -> [id |-> 2, title |-> Compress(<<"b">>),
                    content |-> Compress(<<"y", "a">>), count |-> 1]
      [] id = 3 -> [id |-> 3, title |-> Compress(<<"C", "c">>),
                    content |-> Compress(<<"A", "d">>), count |-> 1]

\* The dicts of the files: one stored already in the larger tables, one new,
\* one too long, one without a title.
ImportDict(kind) ==
    CASE kind = "stored" -> StoredRow(3)
      [] kind = "new" -> [id |-> 7, title |-> Compress(<<"n">>),
                          content |-> Compress(<<"n", "e", "w">>),
                          count |-> 3]
      [] kind = "long" -> [id |-> 8, title |-> Compress(<<"l">>),
                           content |->
                               <<<<"z", DISCORD_EMBED_DESCRIPTION_LIMIT + 1>>>>,
                           count |-> 0]
      [] kind = "untitled" ->
             [id |-> 9, title |-> <<>>,
              content |-> Compress(<<"h", "e", "l", "l", "o", " ", "y", "o",
                                     "u", ".", " ", "x">>),
              count |-> 0]

\* The files attached to an import: exports, an export cut short, an empty
\* file, an export without the content of a dict, an export saved in an
\* encoding other than UTF-8.
Files ==
    LET full == DumpsListLines(<<ImportDict("stored"), ImportDict("new")>>)
        odd == DumpsListLines(<<ImportDict("long"), ImportDict("untitled")>>)
    IN  {[utf8 |-> TRUE, lines |-> full],
         [utf8 |-> TRUE, lines |-> odd],
         [utf8 |-> TRUE, lines |-> DumpsListLines(<<>>)],
         [utf8 |-> TRUE, lines |-> SubSeq(full, 1, Len(full) - 2)],
         [utf8 |-> TRUE, lines |-> <<>>],
         [utf8 |-> TRUE,
          lines |-> SelectSeq(full, LAMBDA line : line.key # "content")],
         [utf8 |-> FALSE, lines |-> full]}

\* Lines 519-538 and 662-682: what follows a search by query or by title.
\* The table is formatted for several rows, the row is fetched again (and
\* counted) for one; results[0] of no rows raises IndexError.
AfterSearch(branch, results, emph, none_found, several, one) ==
    IF NoneFound(results)
    THEN /\ outcome' = [NoOutcome EXCEPT !.branch = branch,
                                         !.messages = <<none_found>>]
         /\ UNCHANGED copypastas
    ELSE IF Len(results) > 1
    THEN /\ outcome' =
               [NoOutcome EXCEPT
                  !.branch = branch, !.results = results,
                  !.messages = several \o <<"table">>,
                  !.format_calls = <<[list |-> results, emphasis |-> emph]>>]
         /\ UNCHANGED copypastas
    ELSE IF Len(results) = 0
    THEN /\ outcome' = [NoOutcome EXCEPT !.branch = branch,
                                         !.raised = "IndexError"]
         /\ UNCHANGED copypastas
    ELSE /\ results[1][4] < MaxCount
         /\ copypastas' = database_copypasta_get(copypastas, results[1][1])
         /\ outcome' = [NoOutcome EXCEPT !.branch = branch,
                                         !.results = results,
                                         !.messages = one \o <<"embed">>]

\* Lines 516-538: copypasta {-s|--search} <query>
CopypastaSearch(args) ==
    /\ cpc = "ready"
    /\ BranchTaken[args, FALSE] = "search"
    /\ arguments' = args
    /\ attachment' = <<>>
    /\ LET query == SEARCH_query(args)
       IN  \E results \in database_copypasta_search(
                              copypastas, query, FALSE, FALSE, "count", "DESC") :
               AfterSearch("search", results, query,
                           "COPYPASTA_NONE_FOUND_QUERY", <<>>,
                           <<"COPYPASTA_ONE_FOUND_QUERY">>)
    /\ UNCHANGED <<cpc, fvars, exvars, mvars, gvars>>

\* Lines 541-587: copypasta {-l|--list} [field] [arrangement]
CopypastaList(args) ==
    /\ cpc = "ready"
    /\ BranchTaken[args, FALSE] = "list"
    /\ arguments' = args
    /\ attachment' = <<>>
    /\ LET order_field == ListOrderTaken[args][1]
           order_arrangement == ListOrderTaken[args][2]
       IN  \E results \in database_copypasta_search(
                              copypastas, <<>>, FALSE, FALSE, order_field,
                              order_arrangement) :
               outcome' =
                   IF NoneFound(results)
                   THEN [NoOutcome EXCEPT
                           !.branch = "list",
                           !.order = <<order_field, order_arrangement>>,
                           !.messages = <<"COPYPASTA_NONE_FOUND">>]
                   ELSE [NoOutcome EXCEPT
                           !.branch = "list",
                           !.order = <<order_field, order_arrangement>>,
                           !.results = results,
                           !.messages = <<"table">>,
                           !.format_calls =
                               <<[list |-> results, emphasis |-> <<>>]>>]
    /\ UNCHANGED <<cpc, copypastas, fvars, exvars, mvars, gvars>>

\* Lines 659-682: copypasta [{-t|--title}] <title>
CopypastaTitle(args, attachments) ==
    /\ cpc = "ready"
    /\ BranchTaken[args, attachments # <<>>] = "title"
    /\ arguments' = args
    /\ attachment' = attachments
    /\ LET title == TITLE_OPTIONAL_title(args)
       IN  \E results \in database_copypasta_search(
                              copypastas, title, TRUE, FALSE, "count", "DESC") :
               AfterSearch("title", results, <<>>,
                           "COPYPASTA_NONE_FOUND_TITLE",
                           <<"COPYPASTA_MULTIPLE_FOUND_TITLE">>, <<>>)
    /\ UNCHANGED <<cpc, fvars, exvars, mvars, gvars>>

\* Line 648: regexes.py defines no BAN_INDEPENDENT, the arguments that no
\* branch before this one takes raise AttributeError. (The branches after
\* it are those of a regexes module that defines the two patterns as the
\* usage text of the command, lines 66-67, gives them.)
CopypastaAttributeError(args, attachments) ==
    /\ cpc = "ready"
    /\ BranchTaken[args, attachments # <<>>]
           \in {"ban", "unban", "title", "none"}
    /\ arguments' = args
    /\ attachment' = attachments
    /\ outcome' = [NoOutcome EXCEPT !.branch = "ban",
                                    !.raised = "AttributeError"]
    /\ UNCHANGED <<cpc, copypastas, fvars, exvars, mvars, gvars>>

\* Lines 601-645: copypasta --import with a file attached.
CopypastaImport(args, attachments) ==
    /\ cpc = "ready"
    /\ BranchTaken[args, attachments # <<>>] = "import"
    /\ arguments' = args
    /\ attachment' = attachments
    /\ LET results == copypasta_import_json(attachments[1], copypastas)
           Said(list, message) == IF list # <<>> THEN <<message>> ELSE <<>>
       IN  /\ copypastas' = results.rows
           /\ outcome' =
                 [NoOutcome EXCEPT
                    !.branch = "import",
                    !.returned = results.returned,
                    !.raised = results.raised,
                    !.parsed = results.parsed,
                    !.imported = results.imported,
                    !.ignored = results.ignored,
                    !.invalid = results.invalid,
                    !.messages =
                        <<"BE_PATIENT">>
                        \o (IF results.raised # "" THEN <<>>
                            ELSE IF results.returned = "None"
                            THEN <<"COPYPASTA_IMPORT_INVALID_FILE">>
                            ELSE IF results.parsed = <<>>
                            THEN <<"COPYPASTA_IMPORT_NONE_PARSED">>
                            ELSE Said(results.imported,
                                      "COPYPASTA_IMPORT_IMPORTED")
                                 \o Said(results.ignored,
                                         "COPYPASTA_IMPORT_IGNORED")
                                 \o Said(results.invalid,
                                         "COPYPASTA_IMPORT_INVALID"))]
    /\ UNCHANGED <<cpc, fvars, exvars, mvars, banned, pvars>>

(***************************************************************************)
(* A guild and its commands                                                *)
(***************************************************************************)
\* The bot serves the commands of a guild one at a time; the guild has no
\* copypasta, or three.
InitCommand ==
    /\ cpc = "ready"
    /\ copypastas \in {{}, {StoredRow(1), StoredRow(2), StoredRow(3)}}
    /\ arguments = <<>>
    /\ attachment = <<>>
    /\ outcome = NoOutcome
    /\ epc = "idle"
    /\ copypasta_dicts = <<>>
    /\ j = 0
    /\ cur_file_size = 0
    /\ copypastas_within_limit = <<>>
    /\ copypasta_lists = <<>>
    /\ buffers = <<>>
    /\ FormatIdle
    /\ MarcoIdle
    /\ GuildIdle

NextCommand ==
    \/ \E args \in ArgumentPool : CopypastaSearch(args)
    \/ \E args \in ArgumentPool : CopypastaList(args)
    \/ \E args \in ArgumentPool, attachments \in {<<>>} :
           CopypastaTitle(args, attachments)
    \/ \E args \in ArgumentPool, attachments \in {<<>>} :
           CopypastaAttributeError(args, attachments)
    \/ \E args \in ArgumentPool, file \in Files :
           CopypastaImport(args, <<file>>) /\ UNCHANGED bvars

SpecCommand == InitCommand /\ [][NextCommand]_vars

(***************************************************************************)
(* Properties of the copypasta command                                     *)
(***************************************************************************)
\* C15: when the file given to copypasta_import_json fails to decode as
\* JSON the function returns None, no partial parse, and the table of the
\* guild is unchanged.
C15_DecodeFailureReturnsNone ==
    [][(outcome'.branch = "import" /\ json_loads(attachment'[1]).raised # "")
          => /\ outcome'.returned = "None"
             /\ outcome'.parsed = <<>>
             /\ copypastas' = copypastas]_vars

\* The flag (in either case) stands in the arguments as a word between
\* spaces.
HasToken(args, flag) ==
    \E p \in 0..(Len(args) - Len(flag)) :
        /\ MatchLit(args, p, flag)
        /\ p = 0 \/ args[p] = " "
        /\ p + Len(flag) = Len(args) \/ args[p + Len(flag) + 1] = " "

\* C19: the list command orders by count descending when neither a field
\* nor an arrangement flag is given; by the field ascending when only a
\* field flag is given (--count too); and applies a given arrangement flag
\* to the given field, or to count when no field is given.
C19_ListOrder ==
    outcome.branch = "list"
        => LET names == <<"id", "id", "title", "title", "content", "content",
                          "count">>
               ways == <<"ASC", "ASC", "DESC", "DESC">>
               given == {names[n] : n \in {q \in 1..7 :
                                      HasToken(arguments, FLAGS.COPYPASTA_LIST_DATABASE_FIELDS[q])}}
               asked == {ways[n] : n \in {q \in 1..4 :
                                     HasToken(arguments, FLAGS.COPYPASTA_LIST_ARRANGEMENT[q])}}
               column == IF given = {} THEN "count"
                         ELSE CHOOSE x \in given : TRUE
               way == IF asked # {} THEN CHOOSE x \in asked : TRUE
                      ELSE IF given = {} THEN "DESC" ELSE "ASC"
               rows == outcome.results
               \* a stands before b, or equals it, in the column
               ColumnLeq(a, b) ==
                   CASE column = "id" -> a[1] <= b[1]
                     [] column = "title" -> StringLeq(a[2], b[2])
                     [] column = "content" -> StringLeq(a[3], b[3])
                     [] column = "count" -> a[4] <= b[4]
           IN  /\ outcome.order = <<column, way>>
               /\ \A k \in 1..(Len(rows) - 1) :
                      IF way = "ASC"
                      THEN ColumnLeq(rows[k], rows[k + 1])
                      ELSE ColumnLeq(rows[k + 1], rows[k])

C19_Witness ==
    /\ outcome.branch = "list"
    /\ HasToken(arguments, FLAGS.COPYPASTA_LIST_DATABASE_FIELDS[7])
    /\ \A q \in 1..4 : ~HasToken(arguments, FLAGS.COPYPASTA_LIST_ARRANGEMENT[q])
    /\ Len(outcome.results) = 3
    /\ outcome.results[1][4] < outcome.results[3][4]

\* C20: format_copypasta_list is never called with an empty list, on none
\* of the three branches that call it (search, list, title).
C20_FormatNeverCalledEmpty ==
    \A k \in 1..Len(outcome.format_calls) :
        /\ outcome.branch \in {"search", "list", "title"}
        /\ Len(outcome.format_calls[k].list) >= 1

C20_Witness ==
    /\ outcome.branch = "list"
    /\ Len(outcome.format_calls) = 1
    /\ Len(outcome.format_calls[1].list) = 1

(***************************************************************************)
(* Adding, importing and deleting copypastas (cogs/entertainment.py)       *)
(***************************************************************************)
\* database_copypasta_delete(guild_id, copypasta_id)
database_copypasta_delete(rows, copypasta_id) ==
    {row \in rows : row.id # copypasta_id}

\* [int(i) for i in ids.split(",")] from the k-th character of string on,
\* n being the number read so far.
RECURSIVE SplitInts(_, _, _)
SplitInts(string, k, n) ==
    IF k > Len(string) THEN <<n>>
    ELSE IF string[k] = "," THEN <<n>> \o SplitInts(string, k + 1, 0)
    ELSE IF IsDigit(string[k])
    THEN SplitInts(string, k + 1, 10 * n + IndexIn(DIGITS, string[k]) - 1)
    ELSE SplitInts(string, k + 1, n)

\* The texts members add: a word, and a text with a backslash in it.
WORD == <<"a">>
SHRUG == <<"s", "\\", "_">>

\* The arguments of the commands that add, delete and set the channel, and
\* the branch of the command each of them takes.
StoreArguments ==
    LET pool == {FLAGS.ADD_OPTIONAL_VALUE[2],
                 FLAGS.ADD_OPTIONAL_VALUE[2] \o SP \o WORD,
                 FLAGS.ADD_OPTIONAL_VALUE[1] \o SP \o SHRUG,
                 FLAGS.DELETE[2] \o SP \o <<"1">>,
                 FLAGS.DELETE[1] \o <<"3", " ", ",", "2">>,
                 FLAGS.SET_CHANNEL_OPTIONAL_VALUE[2],
                 FLAGS.SET_CHANNEL_OPTIONAL_VALUE[1] \o SP \o <<"c">>,
                 FLAGS.SET_CHANNEL_OPTIONAL_VALUE[1] \o SP \o <<"x">>,
                 FLAGS.SET_CHANNEL_OPTIONAL_VALUE[2] \o SP
                     \o <<"-", "-", "n", "o", "n", "e">>}
    IN  [args \in pool |-> Branch(args, FALSE)]

\* Most times a stored copypasta is sent again by an add of its content.
MaxResent == 1

\* Largest id the model lets a copypasta have.
MaxId == 2

\* Lines 394-459: copypasta {-a|--add} [<text>], reference being <<>> or
\* the content of the message replied to. (The texts of the model hold no
\* quotation mark: TITLE_AND_CONTENT matches them as content_2.)
CopypastaAdd(args, reference) ==
    /\ cpc = "ready"
    /\ StoreArguments[args] = "add"
    /\ arguments' = args
    /\ attachment' = <<>>
    /\ LET p == SetMin(PrefixLens(args, FLAGS.ADD_OPTIONAL_VALUE))
           remaining_string ==
               SubSeq(args, p + SpacesFrom(args, p) + 1, Len(args))
           kept == {k \in 1..Len(remaining_string) :
                       ~IsSpace(remaining_string[k])}
           stripped == SubSeq(remaining_string, SetMin(kept), SetMax(kept))
           content == IF reference # <<>> THEN reference[1] ELSE stripped
           given == IF remaining_string # <<>> /\ reference # <<>>
                    THEN stripped ELSE <<>>
           first == FIRST_FEW_WORDS(content)
           title == IF given # <<>> THEN given ELSE first
           Says(messages) == outcome' = [NoOutcome EXCEPT
                                           !.branch = "add",
                                           !.messages = messages]
       IN  IF banned
           THEN Says(<<"COPYPASTA_BANNED">>) /\ UNCHANGED copypastas
           ELSE IF remaining_string = <<>> /\ reference = <<>>
           THEN Says(<<"COPYPASTA_INVALID_USAGE">>) /\ UNCHANGED copypastas
           ELSE \E exists \in database_copypasta_search(
                                  copypastas, content, FALSE, TRUE, "count",
                                  "DESC") :
                  IF exists # <<>>
                  THEN /\ exists[1][4] < MaxResent
                       /\ copypastas' =
                              database_copypasta_get(copypastas, exists[1][1])
                       /\ Says(<<"COPYPASTA_ADD_ALREADY_EXISTS", "embed">>)
                  ELSE IF given = <<>> /\ first = <<>>
                  THEN /\ outcome' = [NoOutcome EXCEPT
                                        !.branch = "add",
                                        !.raised = "AttributeError"]
                       /\ UNCHANGED copypastas
                  ELSE IF \/ Len(content) > DISCORD_EMBED_DESCRIPTION_LIMIT
                          \/ Len(title) > DISCORD_EMBED_TITLE_LIMIT
                  THEN Says(<<"COPYPASTA_ADD_CHARACTER_LIMIT">>)
                           /\ UNCHANGED copypastas
                  ELSE /\ copypastas' =
                              database_copypasta_add(copypastas,
                                  Compress(title), Compress(content))
                       /\ \A row \in copypastas' : row.id <= MaxId
                       /\ Says(<<"COPYPASTA_ADD">>)
    /\ UNCHANGED <<cpc, fvars, exvars, mvars, banned, pvars>>

\* The loop of lines 468-479 over the ids, acc being the table and the
\* messages sent so far. (No id of the model is 0, for which
\* database_copypasta_get fetches a random row.)
RECURSIVE DeleteEach(_, _)
DeleteEach(ids, acc) ==
    IF ids = <<>> THEN acc
    ELSE DeleteEach(Tail(ids),
             IF \A row \in acc.rows : row.id # Head(ids)
             THEN [acc EXCEPT
                     !.messages = Append(@, "COPYPASTA_NONE_FOUND_ID")]
             ELSE [rows |-> database_copypasta_delete(
                                database_copypasta_get(acc.rows, Head(ids)),
                                Head(ids)),
                   messages |-> Append(acc.messages, "COPYPASTA_DELETE")])

\* Lines 462-479: copypasta {-d|--delete} <ids>, by a member who has the
\* permission manage_emojis or has not.
CopypastaDelete(args, manage_emojis) ==
    /\ cpc = "ready"
    /\ StoreArguments[args] = "delete"
    /\ arguments' = args
    /\ attachment' = <<>>
    /\ LET p == SetMin(PrefixLens(args, FLAGS.DELETE))
           ids == SubSeq(args, p + SpacesFrom(args, p) + 1, Len(args))
           done == DeleteEach(SplitInts(ids, 1, 0),
                              [rows |-> copypastas, messages |-> <<>>])
       IN  IF ~manage_emojis
           THEN /\ outcome' = [NoOutcome EXCEPT
                                 !.branch = "delete",
                                 !.raised = "MissingPermissions"]
                /\ UNCHANGED copypastas
           ELSE /\ copypastas' = done.rows
                /\ outcome' = [NoOutcome EXCEPT !.branch = "delete",
                                                !.messages = done.messages]
    /\ UNCHANGED <<cpc, fvars, exvars, mvars, gvars>>

\* The files members import: one with the same new text twice, one with two
\* texts.
StoreFiles ==
    LET Dict(title, content) == [id |-> 1, title |-> Compress(title),
                                 content |-> Compress(content), count |-> 0]
    IN  {[utf8 |-> TRUE,
          lines |-> DumpsListLines(<<Dict(<<"n">>, <<"n", "e", "w">>),
                                     Dict(<<"m">>, <<"n", "e", "w">>)>>)],
         [utf8 |-> TRUE,
          lines |-> DumpsListLines(<<Dict(<<"t">>, SHRUG),
                                     Dict(<<>>, WORD)>>)]}

\* A guild with no copypasta, or one; the author of the commands is banned
\* from adding copypastas or is not (no command changes that: see
\* CopypastaAttributeError).
InitStore ==
    /\ cpc = "ready"
    /\ copypastas \in {{}, {[id |-> 1, title |-> Compress(<<"t">>),
                             content |-> Compress(WORD), count |-> 0]}}
    /\ arguments = <<>>
    /\ attachment = <<>>
    /\ outcome = NoOutcome
    /\ epc = "idle"
    /\ copypasta_dicts = <<>>
    /\ j = 0
    /\ cur_file_size = 0
    /\ copypastas_within_limit = <<>>
    /\ copypasta_lists = <<>>
    /\ buffers = <<>>
    /\ FormatIdle
    /\ MarcoIdle
    /\ banned \in BOOLEAN
    /\ BotIdle
    /\ PurgeIdle

NextStore ==
    \/ \E args \in DOMAIN StoreArguments,
          reference \in {<<>>, <<SHRUG>>} :
           CopypastaAdd(args, reference) /\ UNCHANGED bvars
    \/ \E args \in DOMAIN StoreArguments, manage_emojis \in BOOLEAN :
           CopypastaDelete(args, manage_emojis)
    \/ \E file \in StoreFiles :
           /\ CopypastaImport(FLAGS.IMPORT_INDEPENDENT_VERBOSE[1], <<file>>)
           /\ \A row \in copypastas' : row.id <= MaxId
           /\ UNCHANGED bvars

SpecStore == InitStore /\ [][NextStore]_vars

(***************************************************************************)
(* Properties of adding, importing and deleting                            *)
(***************************************************************************)
\* C25: after any sequence of add, import and delete commands no two stored
\* copypastas of the guild have the same id, and an add that stores a
\* copypasta gives it the largest id of the guild plus 1, or 1 when the
\* guild has none.
C25_IdsUnique ==
    /\ [](\A row1, row2 \in copypastas : row1.id = row2.id => row1 = row2)
    /\ [][outcome'.messages = <<"COPYPASTA_ADD">>
             => /\ Cardinality(copypastas') = Cardinality(copypastas) + 1
                /\ \E row \in copypastas' :
                      /\ copypastas' = copypastas \cup {row}
                      /\ row.id = IF copypastas = {} THEN 1
                                  ELSE SetMax({old.id : old \in copypastas})
                                           + 1]_vars

\* C25 witness: an add has stored a second copypasta.
C25_Witness ==
    /\ outcome.messages = <<"COPYPASTA_ADD">>
    /\ {row.id : row \in copypastas} = {1, 2}

\* C30: no two stored copypastas of the guild have the same content.
C30_ContentsUnique ==
    \A row1, row2 \in copypastas : row1.content = row2.content => row1 = row2

\* C27: while the author is banned from adding copypastas, no command of the
\* author stores a copypasta.
C27_BannedNeverAdds ==
    [][banned => {<<row.id, row.content>> : row \in copypastas'}
                     \subseteq {<<row.id, row.content>> : row \in copypastas}]_vars

(***************************************************************************)
(* purge (cogs/utils.py)                                                   *)
(***************************************************************************)
\* Most messages the channels hold before the command, and most messages
\* members send while it runs.
MaxOld == 3
MaxNew == 1

\* The text channels of the guild.
CHANNELS == {1, 2}

\* The arguments of purge; <<>> is None.
PurgeArguments ==
    {<<>>, <<"2">>, <<"-", "l", "1">>, <<"-", "i", " ", "2">>,
     <<"-", "-", "I", "D", "1">>, <<"-", "i", "9">>, <<"-", "a">>,
     <<"-", "-", "a", "l", "l">>, <<"-", "i">>, <<"a", "l", "l">>}

\* pattern.fullmatch(arguments) of (?:flag1|flag2)\s*(\d+), the flag
\* optional or not: the number, or -1 when there is no match.
NumberAfterFlag(string, alts, optional) ==
    LET starts == PrefixLens(string, alts)
                      \cup (IF optional THEN {0} ELSE {})
        good == {p \in starts :
                    LET d == p + SpacesFrom(string, p)
                    IN  /\ d < Len(string)
                        /\ \A k \in (d + 1)..Len(string) : IsDigit(string[k])}
    IN  IF good = {} THEN -1
        ELSE SplitInts(SubSeq(string, SetMax(good) + 1, Len(string)), 1, 0)[1]

\* Lines 72-93: a member sends purge in channel 1, arguments being what
\* follows the command and reference the id of the message replied to (0:
\* none). The command is the newest message of the channel; history yields
\* the messages the channel holds now, newest first, limit of them at most.
PurgeBegin(args, reference) ==
    /\ ppc = "idle"
    /\ LET message == [id |-> next_id, author |-> 1, channel |-> 1,
                       content |-> args, attachments |-> <<>>]
           held == Append(channels[1], message)
           limit == NumberAfterFlag(args, <<<<"-", "l">>,
                                            <<"-", "-", "l", "i", "m", "i", "t">>>>,
                                    TRUE)
           id == NumberAfterFlag(args, <<<<"-", "i">>, <<"-", "-", "i", "d">>>>,
                                 FALSE)
           all == \E flag \in {<<"-", "a">>, <<"-", "-", "a", "l", "l">>} :
                      MatchLit(args, 0, flag) /\ Len(args) = Len(flag)
           newest_first == [k \in 1..Len(held) |-> held[Len(held) + 1 - k]]
       IN  /\ channels' = [channels EXCEPT ![1] = held]
           /\ next_id' = next_id + 1
           /\ IF args = <<>> /\ reference = 0
              THEN ppc' = "done" /\ UNCHANGED <<end_message_id, history>>
              ELSE IF reference # 0
              THEN /\ end_message_id' = reference
                   /\ history' = newest_first
                   /\ ppc' = "loop"
              ELSE IF limit >= 0
              THEN /\ end_message_id' = 0
                   /\ history' = SubSeq(newest_first, 1,
                                        Min2(limit + 1, Len(held)))
                   /\ ppc' = "loop"
              ELSE IF id >= 0
              THEN /\ end_message_id' = id
                   /\ history' = newest_first
                   /\ ppc' = "loop"
              ELSE IF ~all
              THEN ppc' = "done" /\ UNCHANGED <<end_message_id, history>>
              ELSE /\ end_message_id' = 0
                   /\ history' = newest_first
                   /\ ppc' = "loop"
    /\ UNCHANGED <<deleted, copypasta_channel, last_saved_id, online, rpc>>
    /\ UNCHANGED <<banned, fvars, evars, mvars, cvars>>

\* Lines 95-98: one turn of the loop: the message is deleted, and the loop
\* is left when it is the one to stop at or when history has no more.
PurgeDelete ==
    /\ ppc = "loop"
    /\ IF history = <<>>
       THEN ppc' = "done" /\ UNCHANGED <<channels, deleted, history>>
       ELSE LET message == Head(history)
            IN  /\ channels' =
                      [channels EXCEPT
                         ![1] = SelectSeq(@, LAMBDA m : m.id # message.id)]
                /\ deleted' = deleted \cup {message.id}
                /\ history' = Tail(history)
                /\ ppc' = IF message.id = end_message_id THEN "done"
                          ELSE "loop"
    /\ UNCHANGED <<end_message_id, next_id, copypasta_channel, last_saved_id,
                   online, rpc>>
    /\ UNCHANGED <<banned, fvars, evars, mvars, cvars>>

\* A member sends a message to a channel while purge runs.
PurgePost(channel) ==
    /\ ppc = "loop"
    /\ next_id <= MaxOld + 1 + MaxNew
    /\ channels' = [channels EXCEPT
                      ![channel] = Append(@, [id |-> next_id, author |-> 2,
                                              channel |-> channel,
                                              content |-> <<"a">>,
                                              attachments |-> <<>>])]
    /\ next_id' = next_id + 1
    /\ UNCHANGED <<ppc, end_message_id, deleted, history, copypasta_channel,
                   last_saved_id, online, rpc>>
    /\ UNCHANGED <<banned, fvars, evars, mvars, cvars>>

\* The messages with ids 1 to MaxOld were sent to the two channels, and
\* some of them were deleted since.
InitPurge ==
    /\ \E where \in [1..MaxOld -> CHANNELS \cup {0}] :
          channels =
              [c \in CHANNELS |->
                  SelectSeq([k \in 1..MaxOld |->
                                [id |-> k, author |-> 2, channel |-> c,
                                 content |-> <<"a">>, attachments |-> <<>>]],
                            LAMBDA m : where[m.id] = c)]
    /\ next_id = MaxOld + 1
    /\ copypasta_channel = 0
    /\ last_saved_id = 0
    /\ online = TRUE
    /\ rpc = "idle"
    /\ history = <<>>
    /\ PurgeIdle
    /\ banned = FALSE
    /\ FormatIdle
    /\ ExportIdle
    /\ MarcoIdle
    /\ CommandIdle

NextPurge ==
    \/ \E args \in PurgeArguments, reference \in 0..MaxOld :
           /\ reference # 0 => \E m \in 1..Len(channels[1]) :
                                   channels[1][m].id = reference
           /\ PurgeBegin(args, reference)
    \/ PurgeDelete
    \/ \E channel \in CHANNELS : PurgePost(channel)

SpecPurge == InitPurge /\ [][NextPurge]_vars

(***************************************************************************)
(* Properties of purge                                                     *)
(***************************************************************************)
\* C21: a purge that is given the id of a message, or is sent as a reply to
\* a message, deletes no message older than that one (ids grow with time),
\* whether the channel holds a message of that id or not.
C21_NothingOlderDeleted ==
    end_message_id # 0 => \A id \in deleted : id >= end_message_id

(***************************************************************************)
(* The copypasta channel: on_ready and on_message (bot.py)                 *)
(***************************************************************************)
\* Most messages member 1 sends.
MaxSent == 2

\* The guild prefix and the name of the command, as a message that invokes
\* the command starts.
COMMAND == <<".", "/", "c", "o", "p", "y", "p", "a", "s", "t", "a">>

\* The message of the bot that answers a command, in the channel of the
\* command.
Reply(held, channel, id) ==
    [held EXCEPT ![channel] = Append(@, [id |-> id, author |-> 0,
                                         channel |-> channel,
                                         content |-> <<>>,
                                         attachments |-> <<>>])]

\* ctx.valid for the message: <<arguments>> when it invokes the copypasta
\* command, <<>> when it invokes no command.
Invoked(message) ==
    LET content == message.content
        n == Len(COMMAND)
        rest == SubSeq(content, n + 1 + SpacesFrom(content, n), Len(content))
    IN  IF /\ Len(content) >= n
           /\ SubSeq(content, 1, n) = COMMAND
           /\ Len(content) = n \/ IsSpace(content[n + 1])
        THEN <<rest>> ELSE <<>>

\* Lines 482-513 of cogs/entertainment.py: copypasta {-sc|--set-channel}
\* [<channel>|--none] sent as message in a channel, held being the channels
\* with the message. The channels are named "g" and "c"; last_message_id of
\* the channel is the id of the command or of the answer just sent.
CopypastaSetChannel(args, message, held, manage_guild) ==
    /\ cpc = "ready"
    /\ StoreArguments[args] = "set-channel"
    /\ arguments' = args
    /\ attachment' = <<>>
    /\ LET given == ValueAfterFlag(args, FLAGS.SET_CHANNEL_OPTIONAL_VALUE,
                                   FALSE)
           names == <<<<"g">>, <<"c">>>>
           channel_name == IF given # <<>> THEN given
                           ELSE names[message.channel]
           found == {c \in CHANNELS : names[c] = channel_name}
           Says(text) == outcome' = [NoOutcome EXCEPT
                                       !.branch = "set-channel",
                                       !.messages = <<text>>]
       IN  IF ~manage_guild
           THEN /\ outcome' = [NoOutcome EXCEPT
                                 !.branch = "set-channel",
                                 !.raised = "MissingPermissions"]
                /\ channels' = held
                /\ next_id' = message.id + 1
                /\ UNCHANGED <<copypasta_channel, last_saved_id>>
           ELSE /\ channels' = Reply(held, message.channel, message.id + 1)
                /\ next_id' = message.id + 2
                /\ IF FlagSearch(args, <<<<"-", "n">>,
                                         <<"-", "-", "n", "o", "n", "e">>>>)
                          # <<>>
                   THEN /\ copypasta_channel' = 0
                        /\ Says("COPYPASTA_SET_CHANNEL_NONE")
                        /\ UNCHANGED last_saved_id
                   ELSE IF found = {}
                   THEN /\ Says("SET_CHANNEL_NOT_FOUND")
                        /\ UNCHANGED <<copypasta_channel, last_saved_id>>
                   ELSE /\ copypasta_channel' = CHOOSE c \in found : TRUE
                        /\ Says("COPYPASTA_SET_CHANNEL")
                        /\ last_saved_id' \in {message.id, message.id + 1}
    /\ UNCHANGED <<cpc, copypastas, fvars, exvars, mvars, banned, pvars>>

\* Lines 22-36 of bot.py: copypasta_channel_process_message(message), held
\* being the channels now and id the id of the next message: the id is
\* saved, and the message runs the command as an add, or as an import when
\* it has a file.
ProcessMessage(message, held, id) ==
    /\ last_saved_id' = message.id
    /\ IF message.attachments # <<>>
       THEN /\ CopypastaImport(FLAGS.IMPORT_INDEPENDENT_VERBOSE[1],
                               message.attachments)
            /\ \A row \in copypastas' : row.id <= MaxId
       ELSE CopypastaAdd(FLAGS.ADD_OPTIONAL_VALUE[2] \o SP \o message.content,
                         <<>>)
    /\ channels' = Reply(held, message.channel, id)
    /\ next_id' = id + 1
    /\ UNCHANGED copypasta_channel

\* Nothing but what the channels hold changes.
OnlyChannels(held, id) ==
    /\ channels' = held
    /\ next_id' = id
    /\ UNCHANGED <<copypasta_channel, last_saved_id, copypastas, cvars, fvars,
                   exvars, mvars, banned, pvars>>

\* Member 1 sends a message to a channel. Lines 76-110 of bot.py: when the
\* bot is connected on_message serves it: as a command, or as a copypasta
\* when it is sent to the copypasta channel.
Send(channel, content, attachments, manage_guild) ==
    /\ Cardinality({<<c, k>> \in CHANNELS \X (1..next_id) :
                       k <= Len(channels[c]) /\ channels[c][k].author = 1})
           < MaxSent
    /\ LET message == [id |-> next_id, author |-> 1, channel |-> channel,
                       content |-> content, attachments |-> attachments]
           held == [channels EXCEPT ![channel] = Append(@, message)]
       IN  IF ~online THEN OnlyChannels(held, next_id + 1)
           ELSE IF Invoked(message) # <<>>
           THEN CopypastaSetChannel(Invoked(message)[1], message, held,
                                    manage_guild)
           ELSE IF copypasta_channel # 0 /\ channel = copypasta_channel
           THEN ProcessMessage(message, held, next_id + 1)
           ELSE OnlyChannels(held, next_id + 1)
    /\ UNCHANGED <<online, rpc, history>>

\* Lines 39-60 of bot.py: the bot connects and on_ready asks for the
\* messages of the copypasta channel sent after the last saved one, or for
\* all of them when the channel holds no message of that id.
ReadyBegin ==
    /\ ~online
    /\ online' = TRUE
    /\ IF copypasta_channel = 0
       THEN rpc' = "done" /\ history' = <<>> /\ end_message_id' = 0
       ELSE LET held == channels[copypasta_channel]
                found == \E k \in 1..Len(held) : held[k].id = last_saved_id
            IN  /\ history' = IF found
                              THEN SelectSeq(held,
                                             LAMBDA m : m.id > last_saved_id)
                              ELSE held
                /\ end_message_id' = last_saved_id
                /\ rpc' = "loop"
    /\ UNCHANGED <<channels, next_id, copypasta_channel, last_saved_id,
                   copypastas, cvars, fvars, exvars, mvars, banned, ppc,
                   deleted>>

\* Lines 59-73 of bot.py: one turn of the loop of on_ready, which is
\* suspended while the command sends its answer.
ReadyStep ==
    /\ online
    /\ rpc = "loop"
    /\ IF history = <<>> \/ Head(history).id = end_message_id
       THEN /\ rpc' = "done"
            /\ history' = <<>>
            /\ OnlyChannels(channels, next_id)
       ELSE /\ history' = Tail(history)
            /\ rpc' = "loop"
            /\ IF Head(history).author = 0 \/ Invoked(Head(history)) # <<>>
               THEN OnlyChannels(channels, next_id)
               ELSE ProcessMessage(Head(history), channels, next_id)
    /\ UNCHANGED online

\* The bot loses its connection.
Disconnect ==
    /\ online
    /\ online' = FALSE
    /\ rpc' = "idle"
    /\ history' = <<>>
    /\ OnlyChannels(channels, next_id)

\* What members send: a text, and the command that sets the copypasta
\* channel.
SentContents ==
    {WORD} \cup
    {COMMAND \o SP \o args :
        args \in {a \in DOMAIN StoreArguments :
                     StoreArguments[a] = "set-channel"}}

\* The bot is not connected. The guild is new, or its copypasta channel was
\* set to channel 2 by a command member 2 sent there.
InitChannel ==
    /\ \/ /\ channels = [c \in CHANNELS |-> <<>>]
          /\ next_id = 1
          /\ copypasta_channel = 0
          /\ last_saved_id = 0
       \/ /\ channels =
                Reply([c \in CHANNELS |->
                          IF c = 1 THEN <<>>
                          ELSE <<[id |-> 1, author |-> 2, channel |-> 2,
                                  content |-> COMMAND \o SP
                                      \o FLAGS.SET_CHANNEL_OPTIONAL_VALUE[2],
                                  attachments |-> <<>>]>>], 2, 2)
          /\ next_id = 3
          /\ copypasta_channel = 2
          /\ last_saved_id \in {1, 2}
    /\ online = FALSE
    /\ rpc = "idle"
    /\ history = <<>>
    /\ PurgeIdle
    /\ banned = FALSE
    /\ cpc = "ready"
    /\ copypastas = {}
    /\ arguments = <<>>
    /\ attachment = <<>>
    /\ outcome = NoOutcome
    /\ epc = "idle"
    /\ copypasta_dicts = <<>>
    /\ j = 0
    /\ cur_file_size = 0
    /\ copypastas_within_limit = <<>>
    /\ copypasta_lists = <<>>
    /\ buffers = <<>>
    /\ FormatIdle
    /\ MarcoIdle

NextChannel ==
    \/ \E channel \in CHANNELS, content \in SentContents :
           Send(channel, content, <<>>, TRUE)
    \/ ReadyBegin
    \/ ReadyStep
    \/ Disconnect

SpecChannel == InitChannel /\ [][NextChannel]_vars

(***************************************************************************)
(* Properties of the copypasta channel                                     *)
(***************************************************************************)
\* C28: after a copypasta --set-channel <channel> that succeeded, the stored
\* last saved id is the id of a message of the channel just set, whichever
\* channel the command was sent in.
C28_LastSavedInNewChannel ==
    outcome.messages = <<"COPYPASTA_SET_CHANNEL">>
        => \E k \in 1..Len(channels[copypasta_channel]) :
               channels[copypasta_channel][k].id = last_saved_id

\* C29: while the loop of on_ready runs and the stored last saved id is the
\* id of a message of the copypasta channel, no step, of on_ready or of
\* on_message, replaces it by the id of an older message.
C29_LastSavedMovesForward ==
    [][(/\ rpc = "loop"
        /\ copypasta_channel # 0
        /\ copypasta_channel' = copypasta_channel
        /\ \E k \in 1..Len(channels[copypasta_channel]) :
               channels[copypasta_channel][k].id = last_saved_id)
          => last_saved_id' >= last_saved_id]_vars

====
